---- MODULE Spec2Model ----
(***************************************************************************)
(* A model of the document extraction engine of the azure_functions        *)
(* repository: the two strategy cascades (payments, PDF invoices), the     *)
(* notification token scanner, the statement parsers and the UBL invoice   *)
(* reader.  Each part is a state machine of its own; a part that is not    *)
(* running rests in its idle state.                                        *)
(***************************************************************************)
EXTENDS Integers, Sequences, FiniteSets, TLC

VARIABLES
    cKind,      \* cascade: "payment" (get_html_payment/get_payment), "pdf", or "idle"
    cPc,        \* cascade: position in the code
    cSubject,   \* cascade: the subject of the fetched message (characters)
    cIdx,       \* cascade: index of the next extractor of the list
    cAcc,       \* cascade: payment_data / info, the accumulated mapping
    cCalls,     \* cascade: number of extractors invoked so far
    cRaised,    \* cascade: whether the extractor invoked last raised
    cFirst,     \* cascade: per key, the first non-null value an extractor returned
    cRet,       \* cascade: the mapping returned to the caller
    cDoc,       \* cascade: the PDF is "plain", or encrypted and "unlocked" / "locked" by the password given
    cOpen,      \* cascade: whether the document fitz.open returned is still open
    nBody,      \* notification: body_preview, split at the header delimiter
    nPc,        \* notification: position in extract_notification_email
    nLines,     \* notification: lines, the tokens of the part after the header
    nInfo,      \* notification: info
    nIdx,       \* notification: idx of the scanner's loop
    nIdxWh,     \* notification: idx_wh, the mode counter
    nWhe,       \* notification: whe, as the tokens gathered
    sLines,     \* card summary: text_lines, each line the sequence of its words
    sIdx,       \* card summary: number of lines read so far
    sPc,        \* card summary: position in parse_credit_card_summary
    sSummary,   \* card summary: summary
    sTotal,     \* card summary: total
    sMinimum,   \* card summary: minimum
    sOther,     \* card summary: other_lines
    sFlags,     \* card summary: flags
    sRet,       \* card summary: the value returned
    sStatement, \* card statement: what parse_credit_card_statement returns
    lLines,     \* loan: text_lines, each line as line.split(" ") gives it
    lPc,        \* loan: position in parse_credit_statement
    lIdx,       \* loan: number of lines the last loop has read
    lSummary,   \* loan: summary
    lStatement, \* loan: credit_statement
    lRet,       \* loan: the value returned
    xHeader,    \* invoice: xml_data, the period and the monetary total
    xLines,     \* invoice: xml_data, the cac:InvoiceLine node
    xPc,        \* invoice: position in get_from_xml
    xItems,     \* invoice: the items the loop goes through
    xProducts,  \* invoice: products
    xRet,       \* invoice: the value returned, or the exception raised
    aZip,       \* attachment: what the file at path_attachment is
    aPc,        \* attachment: position in get_from_attachment
    aRet,       \* attachment: the value returned, or the exception raised
    bLoop,      \* batch: which of the three batch functions runs
    bMsgs,      \* batch: the messages of the input blob
    bIdx,       \* batch: number of messages the loop has gone through
    bExtracted, \* batch: extracted_data
    bInfo,      \* batch: the local the extraction result is bound to
    bBlob,      \* batch: the content of the output blob
    bWritten,   \* batch: whether outputBlob.set has been called
    bPc,        \* batch: position in the function
    fName,      \* calls: per call, attachment_name
    fDecodes,   \* calls: per call, whether base64.b64decode accepts contentBytes
    fFiles,     \* calls: per path under /tmp, the document the file holds
    fPc,        \* calls: per call, position in extract_invoice
    fRet,       \* calls: per call, the value returned
    kDoc,       \* retailer: whether the PDF is encrypted and the password opens it
    kLines,     \* retailer: all_text.split('\n'), each line the sequence of its words
    kPc,        \* retailer: position in _extract_alkosto_invoice
    kIdx,       \* retailer: number of lines gone through
    kTip,       \* retailer: tip
    kInfo,      \* retailer: info
    kRet,       \* retailer: the value returned
    gTokens,    \* mailbox: the TOKENS mapping of the process
    gPc,        \* mailbox: position of each get_messages invocation
    gResult,    \* mailbox: the local result of each invocation
    gRequests,  \* mailbox: the headers each invocation sent to the mailbox
    gQueues     \* mailbox: the headers each invocation put on its queues

cascadeVars ==
    <<cKind, cPc, cSubject, cIdx, cAcc, cCalls, cRaised, cFirst, cRet,
      cDoc, cOpen>>

notificationVars == <<nBody, nPc, nLines, nInfo, nIdx, nIdxWh, nWhe>>

cardVars ==
    <<sLines, sIdx, sPc, sSummary, sTotal, sMinimum, sOther, sFlags, sRet,
      sStatement>>

loanVars == <<lLines, lPc, lIdx, lSummary, lStatement, lRet>>

xmlVars == <<xHeader, xLines, xPc, xItems, xProducts, xRet>>

attachmentVars == <<aZip, aPc, aRet>>

batchVars == <<bLoop, bMsgs, bIdx, bExtracted, bInfo, bBlob, bWritten, bPc>>

callsVars == <<fName, fDecodes, fFiles, fPc, fRet>>

alkostoVars == <<kDoc, kLines, kPc, kIdx, kTip, kInfo, kRet>>

messagesVars == <<gTokens, gPc, gResult, gRequests, gQueues>>

vars ==
    <<cascadeVars, notificationVars, cardVars, loanVars, xmlVars,
      attachmentVars,
      batchVars,
      callsVars,
      alkostoVars,
      messagesVars>>

\* the variables of the parts other than the one named
notCascade ==
    <<notificationVars, cardVars, loanVars, xmlVars,
      attachmentVars,
      batchVars,
      callsVars,
      alkostoVars,
      messagesVars>>

notNotification ==
    <<cascadeVars, cardVars, loanVars, xmlVars,
      attachmentVars,
      batchVars,
      callsVars,
      alkostoVars,
      messagesVars>>

notCard ==
    <<cascadeVars, notificationVars, loanVars, xmlVars,
      attachmentVars,
      batchVars,
      callsVars,
      alkostoVars,
      messagesVars>>

notLoan ==
    <<cascadeVars, notificationVars, cardVars, xmlVars,
      attachmentVars,
      batchVars,
      callsVars,
      alkostoVars,
      messagesVars>>

notAttachment ==
    <<cascadeVars, notificationVars, cardVars, loanVars, xmlVars,
      batchVars,
      callsVars,
      alkostoVars,
      messagesVars>>

notXml ==
    <<cascadeVars, notificationVars, cardVars, loanVars,
      attachmentVars,
      batchVars,
      callsVars,
      alkostoVars,
      messagesVars>>

notInvoicePath ==
    <<cascadeVars, notificationVars, cardVars, loanVars,
      batchVars,
      callsVars,
      alkostoVars,
      messagesVars>>

notBatch ==
    <<cascadeVars, notificationVars, cardVars, loanVars,
      xmlVars, attachmentVars,
      callsVars,
      alkostoVars,
      messagesVars>>

notCalls ==
    <<cascadeVars, notificationVars, cardVars, loanVars,
      xmlVars, attachmentVars, batchVars,
      alkostoVars,
      messagesVars>>

notAlkosto ==
    <<cascadeVars, notificationVars, cardVars, loanVars,
      xmlVars, attachmentVars, batchVars, callsVars,
      messagesVars>>

notMessages ==
    <<cascadeVars, notificationVars, cardVars, loanVars,
      xmlVars, attachmentVars, batchVars, callsVars, alkostoVars>>

(***************************************************************************)
(* Python values.  Strings stand for themselves; None is a value of its    *)
(* own.  A dict is a function whose domain is the set of keys present.     *)
(***************************************************************************)
None == "None"

EmptyDict == [k \in {} |-> None]

\* dict.get(k): the value, or None when the key is absent
Get(d, k) == IF k \in DOMAIN d THEN d[k] ELSE None

\* d[k] = v
Put(d, k, v) == [x \in DOMAIN d \cup {k} |-> IF x = k THEN v ELSE d[x]]

\* a dict holding val under the keys of nonNull and None under the keys of nulls
Fill(nonNull, nulls, val) ==
    [k \in nonNull \cup nulls |-> IF k \in nonNull THEN val ELSE None]

(***************************************************************************)
(* Text.  A string the code takes apart is a sequence of one-character     *)
(* strings; str.lower() maps the capital letters to the small ones.        *)
(***************************************************************************)
UpperCase ==
    <<"A", "B", "C", "D", "E", "F", "G", "H", "I", "J", "K", "L", "M",
      "N", "O", "P", "Q", "R", "S", "T", "U", "V", "W", "X", "Y", "Z">>

LowerCase ==
    <<"a", "b", "c", "d", "e", "f", "g", "h", "i", "j", "k", "l", "m",
      "n", "o", "p", "q", "r", "s", "t", "u", "v", "w", "x", "y", "z">>

LowerChar(c) ==
    IF \E i \in 1..Len(UpperCase) : UpperCase[i] = c
    THEN LowerCase[CHOOSE i \in 1..Len(UpperCase) : UpperCase[i] = c]
    ELSE c

\* str.lower()
StrLower(s) == [i \in 1..Len(s) |-> LowerChar(s[i])]

\* sub in s
Contains(sub, s) ==
    \E i \in 0..(Len(s) - Len(sub)) : \A j \in 1..Len(sub) : s[i + j] = sub[j]

\* The subjects a fetched payment message may carry.
Subjects ==
    {"Pago rechazado", "PAGO RECHAZADO", "Tu compra fue Rechazada", "Pago aprobado", "Pago en rechazo"}

SubjectChars(s) ==
    CASE s = "Pago rechazado" ->
           <<"P", "a", "g", "o", " ", "r", "e", "c", "h", "a", "z", "a", "d", "o">>
      [] s = "PAGO RECHAZADO" ->
           <<"P", "A", "G", "O", " ", "R", "E", "C", "H", "A", "Z", "A", "D", "O">>
      [] s = "Tu compra fue Rechazada" ->
           <<"T", "u", " ", "c", "o", "m", "p", "r", "a", " ", "f", "u", "e", " ", "R", "e", "c", "h", "a", "z", "a", "d", "a">>
      [] s = "Pago aprobado" ->
           <<"P", "a", "g", "o", " ", "a", "p", "r", "o", "b", "a", "d", "o">>
      [] s = "Pago en rechazo" ->
           <<"P", "a", "g", "o", " ", "e", "n", " ", "r", "e", "c", "h", "a", "z", "o">>

rechazado == <<"r", "e", "c", "h", "a", "z", "a", "d", "o">>

rechazada == <<"r", "e", "c", "h", "a", "z", "a", "d", "a">>

\* the same test without lower()
IsRejectedSubjectCaseSensitive(s) ==
    \/ Contains(rechazado, SubjectChars(s))
    \/ Contains(rechazada, SubjectChars(s))

\* get_html_payment: 'rechazado' in subject.lower() or 'rechazada' in subject.lower()
IsRejectedSubject(s) ==
    \/ Contains(rechazado, StrLower(SubjectChars(s)))
    \/ Contains(rechazada, StrLower(SubjectChars(s)))

(***************************************************************************)
(* The payment strategies (extract_payments.py).  A strategy reads the     *)
(* parsed HTML; what the model keeps of it is the set of mappings its code *)
(* can return.  Every non-null field value a strategy returns is written   *)
(* val, a value naming the strategy, so that the strategy a field of the   *)
(* result came from can be told.                                           *)
(***************************************************************************)
APPROVED_STATE == "Aprobado"

UNKNOWN_STATE == "Desconocido"

PAYMENT_KEYS == {"value", "to", "date", "cus", "state"}

\* the keys of PAYMENT_KEYS other than 'state'
PaymentFields == PAYMENT_KEYS \ {"state"}

\* A strategy that keeps the labels it found as keys (extract_payment_gas,
\* extract_invoice_vue) and did not find them all is taken to have found the
\* first n labels of its list, n <= MaxRawKeys.
MaxRawKeys == 1

\* {key: None for key in PAYMENT_KEYS}
AllNone == Fill({}, PAYMENT_KEYS, None)

\* value, to, date, cus and state all assigned by one update(): value is the
\* result of _safe_int, None when the text is no number
FullPayment(val, state) ==
    { Put(Fill(PaymentFields \ nulls, nulls, val), "state", state) :
        nulls \in {{}, {"value"}} }

\* extract_payment_values: the four fields start as None, each is set when
\* one of its phrases is found; state is added when any field was found
extract_payment_values(val) ==
    { IF found = {}
      THEN Fill({}, PaymentFields, val)
      ELSE Put(Fill(found, PaymentFields \ found, val), "state", APPROVED_STATE) :
        found \in SUBSET PaymentFields }

\* get_payment_data: all of PAYMENT_KEYS None, or all assigned
get_payment_data(val) == {AllNone} \cup FullPayment(val, APPROVED_STATE)

\* extract_from_notification: state is None without the EXITOSO marker
extract_from_notification(val) ==
    {AllNone} \cup FullPayment(val, APPROVED_STATE) \cup FullPayment(val, None)

\* get_payment_from_nequi: state is None unless the state text is "exito"
get_payment_from_nequi(val) ==
    {AllNone} \cup FullPayment(val, APPROVED_STATE) \cup FullPayment(val, None)

\* get_payment_from_puntored: each labelled div sets its field; state is the
\* header title (UNKNOWN_STATE without one), APPROVED_STATE when it says
\* "exitosa", and stays None when the scan raised before reaching it
get_payment_from_puntored(val) ==
    { Put(Fill(found, PaymentFields \ found, val), "state", state) :
        found \in SUBSET PaymentFields,
        state \in {APPROVED_STATE, UNKNOWN_STATE, None} }

GasLabels == <<"Valor", "Convenio", "Fecha", "ID transaccion">>

\* the first n entries of a list of labels, n <= MaxRawKeys and not all
RawKeySets(labels) ==
    { {labels[i] : i \in 1..n} : n \in 0..(IF MaxRawKeys < Len(labels)
                                           THEN MaxRawKeys
                                           ELSE Len(labels) - 1) }

\* extract_payment_gas: the labels found are keys of values; they are
\* renamed to the payment keys only when all four were found
extract_payment_gas(val) ==
    { Fill(found, {}, val) : found \in RawKeySets(GasLabels) }
    \cup FullPayment(val, APPROVED_STATE)

\* _extract_from_tags with the patterns of extract_claro_invoice; state is
\* set when 'to' was found
extract_claro_invoice(val) ==
    { IF "to" \in found
      THEN Put(Fill(found, PaymentFields \ found, val), "state", APPROVED_STATE)
      ELSE Fill(found, PAYMENT_KEYS \ found, val) :
        found \in SUBSET PaymentFields }

\* _extract_from_tags with the patterns of extract_enel_invoice
extract_enel_invoice(val) ==
    { IF "to" \in found
      THEN Put(Fill(found, PaymentFields \ found, val), "state", APPROVED_STATE)
      ELSE Fill(found, PAYMENT_KEYS \ found, val) :
        found \in SUBSET PaymentFields }

VueLabels == <<"Total", "Invoice Number:", "Transaction Date:", "money">>

\* extract_invoice_vue: the labels found are keys of values; with all four
\* the three labels are renamed, 'to' is the sender and 'money' stays
extract_invoice_vue(val) ==
    { Fill(found, {}, val) : found \in RawKeySets(VueLabels) }
    \cup { Put(p, "money", val) : p \in FullPayment(val, APPROVED_STATE) }

\* extract_from_alkosto: value (the result of _safe_int), cus and date as
\* found; with all three, 'to' and 'state' are added
extract_from_alkosto(val) ==
    { Fill(found \ nulls, found \cap nulls, val) :
        found \in (SUBSET {"value", "cus", "date"}) \ {{"value", "cus", "date"}},
        nulls \in {{}, {"value"}} }
    \cup FullPayment(val, APPROVED_STATE)

(***************************************************************************)
(* The PDF invoice strategies (extract_invoice_attachment.py).             *)
(***************************************************************************)
INVOICE_INFO == {"Total", "Date"}

\* _extract_with_fitz: returns at the first line that has a total or a date
extract_with_fitz(val) ==
    {EmptyDict, Fill({"Total"}, {}, val), Fill({"Date"}, {}, val)}

\* _extract_with_pypdf2: info once it holds both keys, else {}
extract_with_pypdf2(val) == {EmptyDict, Fill({"Total", "Date"}, {}, val)}

\* _extract_alkosto_invoice: 'value' from a REDEBAN line, 'Date' from the
\* line counter
extract_alkosto_invoice(val) ==
    { Fill(found, {}, val) : found \in SUBSET {"value", "Date"} }

\* a strategy that reports its amount under the key Total
extract_total_and_date(val) == {EmptyDict, Fill({"Total", "Date"}, {}, val)}

\* _extract_english_pdf: info when it holds both keys, else {}
extract_english_pdf(val) == {EmptyDict, Fill({"value", "Date"}, {}, val)}

(***************************************************************************)
(* The cascade: get_html_payment -> get_payment, and                       *)
(* extract_invoice_from_pdf.                                               *)
(***************************************************************************)
\* the number of entries of the list `extractors`
NumExtractors(kind) == IF kind = "payment" THEN 10 ELSE 4

\* the value that names the extractor at position i
ValueOf(i) == ToString(i)

\* extractors[i](): the mappings the extractor at position i can return
ExtractorResults(kind, i) ==
    IF kind = "payment"
    THEN CASE i = 1 -> extract_payment_values(ValueOf(i))
           [] i = 2 -> get_payment_data(ValueOf(i))
           [] i = 3 -> extract_from_notification(ValueOf(i))
           [] i = 4 -> get_payment_from_nequi(ValueOf(i))
           [] i = 5 -> get_payment_from_puntored(ValueOf(i))
           [] i = 6 -> extract_payment_gas(ValueOf(i))
           [] i = 7 -> extract_claro_invoice(ValueOf(i))
           [] i = 8 -> extract_enel_invoice(ValueOf(i))
           [] i = 9 -> extract_invoice_vue(ValueOf(i))
           [] i = 10 -> extract_from_alkosto(ValueOf(i))
    ELSE CASE i = 1 -> extract_with_fitz(ValueOf(i))
           [] i = 2 -> extract_with_pypdf2(ValueOf(i))
           [] i = 3 -> extract_alkosto_invoice(ValueOf(i))
           [] i = 4 -> extract_english_pdf(ValueOf(i))

\* payment_data / info before the loop
InitialMappingWithoutState(kind, subject) ==
    IF kind = "payment"
    THEN [id |-> "m1", subject |-> subject]
    ELSE EmptyDict

InitialMapping(kind, subject) ==
    IF kind = "payment"
    THEN [id |-> "m1", subject |-> subject, state |-> "Aprovado"]
    ELSE EmptyDict

\* for key, value in update.items():
\*     if value is not None and acc.get(key) is None: acc[key] = value
MergeOverwrite(acc, update) ==
    LET add == {k \in DOMAIN update : update[k] # None}
    IN  [k \in DOMAIN acc \cup add |-> IF k \in add THEN update[k] ELSE acc[k]]

Merge(acc, update) ==
    LET add == {k \in DOMAIN update : update[k] # None /\ Get(acc, k) = None}
    IN  [k \in DOMAIN acc \cup add |-> IF k \in add THEN update[k] ELSE acc[k]]

\* the keys the break test reads: PAYMENT_KEYS / INVOICE_INFO, if key != 'state'
RequiredKeysExtra(kind) ==
    IF kind = "payment"
    THEN (PAYMENT_KEYS \cup {"money"}) \ {"state"}
    ELSE (INVOICE_INFO \cup {"value"}) \ {"state"}

RequiredKeys(kind) ==
    IF kind = "payment" THEN PAYMENT_KEYS \ {"state"} ELSE INVOICE_INFO \ {"state"}

\* all(acc.get(key) is not None for key in ... if key != 'state')
ShouldBreak(kind, acc) == \A key \in RequiredKeys(kind) : Get(acc, key) # None

\* except Exception as e: logger.error(...) -- the mapping as the handler
\* leaves it
AfterExceptionCleared(acc) == EmptyDict

AfterException(acc) == acc

InitCascade ==
    /\ cKind \in {"payment", "pdf"}
    /\ cPc = IF cKind = "payment" THEN "fetch" ELSE "call"
    /\ cSubject \in IF cKind = "payment" THEN Subjects ELSE {None}
    /\ cIdx = 0
    /\ cAcc = EmptyDict
    /\ cCalls = 0
    /\ cRaised = FALSE
    /\ cFirst = EmptyDict
    /\ cRet = EmptyDict
    /\ cDoc \in IF cKind = "pdf" THEN {"plain", "unlocked", "locked"} ELSE {"plain"}
    /\ cOpen = FALSE

IdleCascade ==
    /\ cKind = "idle"
    /\ cPc = "idle"
    /\ cSubject = None
    /\ cIdx = 0
    /\ cAcc = EmptyDict
    /\ cCalls = 0
    /\ cRaised = FALSE
    /\ cFirst = EmptyDict
    /\ cRet = EmptyDict
    /\ cDoc = "plain"
    /\ cOpen = FALSE

\* the document is encrypted and the password given does not open it (or
\* none is given): every PDF strategy raises ValueError
PasswordRefused(kind, doc) == kind = "pdf" /\ doc = "locked"

\* the extractor is _extract_with_fitz, which keeps the document that
\* fitz.open returns; the PdfReader strategies read the file when the
\* reader is built
OpensDocument(kind, i) == kind = "pdf" /\ i = 1

\* get_html_payment: the request raises; the handler returns {}
RequestFails ==
    /\ cKind = "payment" /\ cPc = "fetch"
    /\ cRet' = EmptyDict
    /\ cPc' = "done"
    /\ UNCHANGED <<cKind, cSubject, cIdx, cAcc, cCalls, cRaised, cFirst,
                   cDoc, cOpen>>
    /\ UNCHANGED notCascade

\* get_html_payment: the subject holds a rejection keyword; return {}
SubjectRejected ==
    /\ cKind = "payment" /\ cPc = "fetch"
    /\ IsRejectedSubject(cSubject)
    /\ cRet' = EmptyDict
    /\ cPc' = "done"
    /\ UNCHANGED <<cKind, cSubject, cIdx, cAcc, cCalls, cRaised, cFirst,
                   cDoc, cOpen>>
    /\ UNCHANGED notCascade

\* get_html_payment calls get_payment, which builds payment_data
CallGetPayment ==
    /\ cKind = "payment" /\ cPc = "fetch"
    /\ ~IsRejectedSubject(cSubject)
    /\ cAcc' = InitialMapping(cKind, cSubject)
    /\ cIdx' = 1
    /\ cPc' = "loop"
    /\ UNCHANGED <<cKind, cSubject, cCalls, cRaised, cFirst, cRet, cDoc, cOpen>>
    /\ UNCHANGED notCascade

\* extract_invoice_from_pdf is called: info = {}
CallExtractInvoiceFromPdf ==
    /\ cKind = "pdf" /\ cPc = "call"
    /\ cAcc' = InitialMapping(cKind, cSubject)
    /\ cIdx' = 1
    /\ cPc' = "loop"
    /\ UNCHANGED <<cKind, cSubject, cCalls, cRaised, cFirst, cRet, cDoc, cOpen>>
    /\ UNCHANGED notCascade

\* one turn of the loop in which the extractor returns: merge, then the
\* break test
ExtractorReturns ==
    /\ cPc = "loop"
    /\ ~PasswordRefused(cKind, cDoc)
    /\ cOpen' = (cOpen \/ OpensDocument(cKind, cIdx))
    /\ \E update \in ExtractorResults(cKind, cIdx) :
         LET merged == Merge(cAcc, update)
             nonNull == {k \in DOMAIN update : update[k] # None}
         IN  /\ cAcc' = merged
             /\ cFirst' = [k \in DOMAIN cFirst \cup nonNull |->
                             IF k \in DOMAIN cFirst THEN cFirst[k] ELSE update[k]]
             /\ IF ShouldBreak(cKind, merged) \/ cIdx = NumExtractors(cKind)
                THEN cPc' = "return" /\ cIdx' = cIdx
                ELSE cPc' = "loop" /\ cIdx' = cIdx + 1
    /\ cCalls' = cCalls + 1
    /\ cRaised' = FALSE
    /\ UNCHANGED <<cKind, cSubject, cRet, cDoc>>
    /\ UNCHANGED notCascade

\* one turn of the loop in which the extractor raises: the handler logs and
\* the loop goes on
ExtractorRaises ==
    /\ cPc = "loop"
    /\ cOpen' \in IF ~OpensDocument(cKind, cIdx) THEN {cOpen}
                  ELSE IF PasswordRefused(cKind, cDoc) THEN {TRUE}
                  ELSE BOOLEAN
    /\ cAcc' = AfterException(cAcc)
    /\ cCalls' = cCalls + 1
    /\ cRaised' = TRUE
    /\ IF cIdx = NumExtractors(cKind)
       THEN cPc' = "return" /\ cIdx' = cIdx
       ELSE cPc' = "loop" /\ cIdx' = cIdx + 1
    /\ UNCHANGED <<cKind, cSubject, cFirst, cRet, cDoc>>
    /\ UNCHANGED notCascade

\* get_payment returns payment_data; get_html_payment sets state when it
\* is missing or empty and returns
ReturnPayment ==
    /\ cKind = "payment" /\ cPc = "return"
    /\ cRet' = IF Get(cAcc, "state") \in {None, ""}
               THEN Put(cAcc, "state", APPROVED_STATE)
               ELSE cAcc
    /\ cPc' = "done"
    /\ UNCHANGED <<cKind, cSubject, cIdx, cAcc, cCalls, cRaised, cFirst,
                   cDoc, cOpen>>
    /\ UNCHANGED notCascade

\* extract_invoice_from_pdf returns info
ReturnInvoiceInfo ==
    /\ cKind = "pdf" /\ cPc = "return"
    /\ cRet' = cAcc
    /\ cPc' = "done"
    /\ UNCHANGED <<cKind, cSubject, cIdx, cAcc, cCalls, cRaised, cFirst,
                   cDoc, cOpen>>
    /\ UNCHANGED notCascade

\* no code closes the document of _extract_with_fitz: it is closed when
\* the interpreter finalizes the object, if and when it does
DocumentFinalized ==
    /\ cOpen
    /\ cOpen' = FALSE
    /\ UNCHANGED <<cKind, cPc, cSubject, cIdx, cAcc, cCalls, cRaised, cFirst,
                   cRet, cDoc>>
    /\ UNCHANGED notCascade

NextCascade ==
    \/ RequestFails
    \/ SubjectRejected
    \/ CallGetPayment
    \/ CallExtractInvoiceFromPdf
    \/ ExtractorReturns
    \/ ExtractorRaises
    \/ ReturnPayment
    \/ ReturnInvoiceInfo
    \/ DocumentFinalized

(***************************************************************************)
(* Claims about the cascades.                                              *)
(***************************************************************************)
\* the mapping the running cascade started from
StartMapping == InitialMapping(cKind, cSubject)

InCascade == cPc \in {"loop", "return"}

\* C1 (as stated): for every field, the merged result holds the first
\* non-null value the strategies produced for it, in list order.
C1_EveryFieldFirstNonNull ==
    InCascade => \A k \in DOMAIN cFirst : Get(cAcc, k) = cFirst[k]

\* C1 (amended): a field the cascade's mapping held before the first
\* strategy (id, subject and state in get_payment) keeps that value; every
\* other field holds the first non-null value the strategies produced for
\* it, in list order, and nothing else is in the mapping.
C1_FirstNonNullWins ==
    InCascade =>
        /\ \A k \in DOMAIN StartMapping : Get(cAcc, k) = StartMapping[k]
        /\ \A k \in DOMAIN cFirst \ DOMAIN StartMapping : Get(cAcc, k) = cFirst[k]
        /\ DOMAIN cAcc \subseteq DOMAIN StartMapping \cup DOMAIN cFirst

\* C1 witness: strategy 1 supplied 'to' only, strategy 2 (which returns all
\* four fields or none) supplied 'date': its 'to' did not replace the first.
C1_Witness ==
    /\ cKind = "payment" /\ cPc = "return"
    /\ Get(cAcc, "to") = ValueOf(1)
    /\ Get(cAcc, "date") = ValueOf(2)

\* C2: while a cascade is about to invoke a strategy, some required field
\* (payments: value, to, date, cus; PDF invoices: Total, Date) is still
\* null: once all are non-null no later strategy is invoked.
C2_EarlyStop ==
    cPc = "loop" =>
        \E k \in (IF cKind = "payment"
                  THEN {"value", "to", "date", "cus"}
                  ELSE {"Total", "Date"}) : Get(cAcc, k) = None

\* C2 witness: the loop was left with strategies of the list not invoked.
C2_Witness ==
    /\ cPc = "return"
    /\ cCalls < NumExtractors(cKind)
    /\ cKind = "payment"
    /\ \A k \in {"value", "to", "date", "cus"} : Get(cAcc, k) # None

\* C3: a turn of the loop in which the strategy raises leaves the
\* accumulated mapping as it was and goes on with the next strategy of the
\* list (or returns normally after the last); the exception does not leave
\* the cascade.
C3_ExceptionContained ==
    [][ (cCalls' = cCalls + 1 /\ cRaised') =>
            /\ cAcc' = cAcc
            /\ (cIdx < NumExtractors(cKind) => cPc' = "loop" /\ cIdx' = cIdx + 1)
            /\ (cIdx = NumExtractors(cKind) => cPc' = "return") ]_vars

\* C3 witness: a strategy raised after fields had been accumulated, and the
\* cascade is about to invoke the next strategy.
C3_Witness ==
    /\ cRaised /\ cPc = "loop"
    /\ \E k \in RequiredKeys(cKind) : Get(cAcc, k) # None

\* C4 (as stated): the mapping a cascade returns contains every declared
\* field (payments: value, to, date, cus; PDF invoices: Total, Date), null
\* when no strategy supplied it.
C4_DeclaredFieldsPresent ==
    cPc = "return" =>
        (IF cKind = "payment"
         THEN {"value", "to", "date", "cus"}
         ELSE {"Total", "Date"}) \subseteq DOMAIN cAcc

\* c is the letter l in small or capital form
SameLetter(c, l) ==
    \/ c = l
    \/ \E i \in 1..Len(LowerCase) : LowerCase[i] = l /\ UpperCase[i] = c

\* the subject contains rechazado or rechazada in any letter case
HasRejectionKeyword(s) ==
    LET text == SubjectChars(s)
    IN  \E kw \in {rechazado, rechazada} :
          \E i \in 0..(Len(text) - Len(kw)) :
            \A j \in 1..Len(kw) : SameLetter(text[i + j], kw[j])

\* C5: a payment whose subject contains a rejection keyword, in any letter
\* case, never reaches a strategy and yields the empty record.
C5_RejectedSubjectEmpty ==
    (cKind = "payment" /\ HasRejectionKeyword(cSubject)) =>
        /\ cCalls = 0
        /\ cPc \in {"fetch", "done"}
        /\ (cPc = "done" => cRet = EmptyDict)

\* C5 witness: a subject with the keyword in capitals was answered.
C5_Witness ==
    /\ cPc = "done"
    /\ cSubject = "PAGO RECHAZADO"
    /\ cRet = EmptyDict

\* C14: for an encrypted PDF invoice whose password is missing or wrong,
\* extract_invoice_from_pdf reports the failure to its caller: it does not
\* return a result as if the extraction had found nothing.
C14_PasswordFailureReported ==
    ~(cKind = "pdf" /\ cDoc = "locked" /\ cPc = "done")

\* C15: every document handle a PDF strategy opens is released before the
\* strategy returns, on the normal path and on every failure path: once
\* the call of _extract_with_fitz is over, its document is not open.
C15_HandleReleased ==
    (cKind = "pdf" /\ cCalls >= 1) => ~cOpen

\* the fields of a PaymentRecord
PaymentRecordFields == {"id", "subject", "state", "value", "to", "date", "cus"}

\* C24: every key of the mapping get_payment returns is a field of the
\* PaymentRecord {id, subject, state, value, to, date, cus}, whatever
\* partial mapping a strategy returned.
C24_OnlyRecordKeys ==
    (cKind = "payment" /\ cPc = "return") =>
        DOMAIN cAcc \subseteq PaymentRecordFields

\* C25: in get_payment state is set to its default before any strategy
\* runs and is never changed: a state a strategy returns does not reach
\* the output, and the fallback of get_html_payment that sets a missing
\* state does not fire for a record get_payment produced.
C25_StateNeverChanged ==
    /\ (cKind = "payment" /\ InCascade) =>
          Get(cAcc, "state") = "Aprovado"
    /\ (cKind = "payment" /\ cPc = "done" /\ cCalls >= 1) =>
          (cRet = cAcc /\ Get(cRet, "state") = "Aprovado")

\* C25 witness: a strategy returned a state of its own and the record
\* returned holds the default.
C25_Witness ==
    /\ cKind = "payment" /\ cPc = "done"
    /\ "state" \in DOMAIN cFirst
    /\ cFirst["state"] = UNKNOWN_STATE
    /\ Get(cRet, "state") = "Aprovado"

\* C28: in extract_invoice_from_pdf Total is non-null only if the fitz or
\* the PyPDF2 strategy produced it: fitz returns at most one of Total and
\* Date, and the Alkosto and English strategies report an amount under the
\* key value, which neither fills Total nor makes the loop stop early.
C28_TotalFromFirstTwo ==
    cKind = "pdf" =>
        /\ Get(cAcc, "Total") \in {None, ValueOf(1), ValueOf(2)}
        /\ cCalls = 1 => (Get(cAcc, "Total") = None \/ Get(cAcc, "Date") = None)
        /\ (cPc = "return" /\ ShouldBreak(cKind, cAcc)) =>
              Get(cAcc, "Total") \in {ValueOf(1), ValueOf(2)}
        /\ Get(cRet, "Total") \in {None, ValueOf(1), ValueOf(2)}

\* C28 witness: the four strategies ran, the later ones found an amount
\* and a date, and the result holds value but no Total.
C28_Witness ==
    /\ cKind = "pdf" /\ cPc = "done"
    /\ cCalls = 4
    /\ Get(cRet, "value") \in {ValueOf(3), ValueOf(4)}
    /\ Get(cRet, "Date") # None
    /\ Get(cRet, "Total") = None

(***************************************************************************)
(* The notification parser (extract_notificacions.py).  body_preview is    *)
(* kept as the sequence of its parts between the header delimiter          *)
(* "\r\n\r\n\r\n", each part the sequence of its whitespace-separated      *)
(* tokens.                                                                 *)
(***************************************************************************)
\* The tokens of the bodies considered, and the strings made from them.
Tokens ==
    {"Notificacion", "Bancolombia:", "Compraste", "Transferiste", "Pagaste",
     "Recibiste", "Retiraste", "Hola", "$25.000,00", "2500000", "en", "con",
     "tu", "el", "desde", "producto", "de", "a", "la", "las", "un", "pago",
     "por", "cuenta", "RAPPI", "EXITO", "NORTE", "SUR", "T.Cred", "*1234,",
     "*1234", "*5678", "Visa", "Oro", "23/05/2024", "12:05", "INTERESES",
     "DE", "MORA", "Intereses", "corrientes", "OTROS", "CARGOS", "AVANCES",
     "CUOTA", "COMPRAS", "DEL", "MES", "FACTURADACARGOS", "Y", "ABONOS",
     "SALDO", "A", "DIFERIR", "CUOTAS", "INTERES", "CORRIENTE", "MANEJO",
     "CUPO", "TOTAL", "DESDE", "HASTA", "$", "100", "200", "300", "000000",
     "01/02", "02/03", "intereses", "mora", "otros", "cargos", "avances",
     "cuota", "compras", "del", "mes", "facturadacargos", "y", "abonos",
     "saldo", "diferir", "cuotas", "interes", "corriente", "manejo", "cupo",
     "total", "hasta", "anterior", "pagos", "/", "anteriores", "VALOR",
     "INICIAL", "INTERÉS", "CRÉDITO", "FECHA", "PAGO", "05/03/2024",
     "CAPITAL", "1", "2", "x", "abc", "10", "20", "disponible", "Con", "TU",
     "El", "Desde", "Producto", "EN", "De", "ahorros", "$1,5", "15",
     "Saldo", "25.000,00", "1,5", "REDEBAN", "ELECTRONICA", "FACTURA", ""}

\* the characters of a token, spelt out
Spell(t) ==
    CASE t = "Notificacion" ->
           <<"N", "o", "t", "i", "f", "i", "c", "a", "c", "i", "o", "n">>
      [] t = "Bancolombia:" ->
           <<"B", "a", "n", "c", "o", "l", "o", "m", "b", "i", "a", ":">>
      [] t = "Compraste" -> <<"C", "o", "m", "p", "r", "a", "s", "t", "e">>
      [] t = "Transferiste" ->
           <<"T", "r", "a", "n", "s", "f", "e", "r", "i", "s", "t", "e">>
      [] t = "Pagaste" -> <<"P", "a", "g", "a", "s", "t", "e">>
      [] t = "Recibiste" -> <<"R", "e", "c", "i", "b", "i", "s", "t", "e">>
      [] t = "Retiraste" -> <<"R", "e", "t", "i", "r", "a", "s", "t", "e">>
      [] t = "Hola" -> <<"H", "o", "l", "a">>
      [] t = "$25.000,00" ->
           <<"$", "2", "5", ".", "0", "0", "0", ",", "0", "0">>
      [] t = "2500000" -> <<"2", "5", "0", "0", "0", "0", "0">>
      [] t = "en" -> <<"e", "n">>
      [] t = "con" -> <<"c", "o", "n">>
      [] t = "tu" -> <<"t", "u">>
      [] t = "el" -> <<"e", "l">>
      [] t = "desde" -> <<"d", "e", "s", "d", "e">>
      [] t = "producto" -> <<"p", "r", "o", "d", "u", "c", "t", "o">>
      [] t = "de" -> <<"d", "e">>
      [] t = "a" -> <<"a">>
      [] t = "la" -> <<"l", "a">>
      [] t = "las" -> <<"l", "a", "s">>
      [] t = "un" -> <<"u", "n">>
      [] t = "pago" -> <<"p", "a", "g", "o">>
      [] t = "por" -> <<"p", "o", "r">>
      [] t = "cuenta" -> <<"c", "u", "e", "n", "t", "a">>
      [] t = "RAPPI" -> <<"R", "A", "P", "P", "I">>
      [] t = "EXITO" -> <<"E", "X", "I", "T", "O">>
      [] t = "NORTE" -> <<"N", "O", "R", "T", "E">>
      [] t = "SUR" -> <<"S", "U", "R">>
      [] t = "T.Cred" -> <<"T", ".", "C", "r", "e", "d">>
      [] t = "*1234," -> <<"*", "1", "2", "3", "4", ",">>
      [] t = "*1234" -> <<"*", "1", "2", "3", "4">>
      [] t = "*5678" -> <<"*", "5", "6", "7", "8">>
      [] t = "Visa" -> <<"V", "i", "s", "a">>
      [] t = "Oro" -> <<"O", "r", "o">>
      [] t = "23/05/2024" ->
           <<"2", "3", "/", "0", "5", "/", "2", "0", "2", "4">>
      [] t = "12:05" -> <<"1", "2", ":", "0", "5">>
      [] t = "INTERESES" -> <<"I", "N", "T", "E", "R", "E", "S", "E", "S">>
      [] t = "DE" -> <<"D", "E">>
      [] t = "MORA" -> <<"M", "O", "R", "A">>
      [] t = "Intereses" -> <<"I", "n", "t", "e", "r", "e", "s", "e", "s">>
      [] t = "corrientes" ->
           <<"c", "o", "r", "r", "i", "e", "n", "t", "e", "s">>
      [] t = "OTROS" -> <<"O", "T", "R", "O", "S">>
      [] t = "CARGOS" -> <<"C", "A", "R", "G", "O", "S">>
      [] t = "AVANCES" -> <<"A", "V", "A", "N", "C", "E", "S">>
      [] t = "CUOTA" -> <<"C", "U", "O", "T", "A">>
      [] t = "COMPRAS" -> <<"C", "O", "M", "P", "R", "A", "S">>
      [] t = "DEL" -> <<"D", "E", "L">>
      [] t = "MES" -> <<"M", "E", "S">>
      [] t = "FACTURADACARGOS" ->
           <<"F", "A", "C", "T", "U", "R", "A", "D", "A", "C", "A", "R", "G", "O", "S">>
      [] t = "Y" -> <<"Y">>
      [] t = "ABONOS" -> <<"A", "B", "O", "N", "O", "S">>
      [] t = "SALDO" -> <<"S", "A", "L", "D", "O">>
      [] t = "A" -> <<"A">>
      [] t = "DIFERIR" -> <<"D", "I", "F", "E", "R", "I", "R">>
      [] t = "CUOTAS" -> <<"C", "U", "O", "T", "A", "S">>
      [] t = "INTERES" -> <<"I", "N", "T", "E", "R", "E", "S">>
      [] t = "CORRIENTE" -> <<"C", "O", "R", "R", "I", "E", "N", "T", "E">>
      [] t = "MANEJO" -> <<"M", "A", "N", "E", "J", "O">>
      [] t = "CUPO" -> <<"C", "U", "P", "O">>
      [] t = "TOTAL" -> <<"T", "O", "T", "A", "L">>
      [] t = "DESDE" -> <<"D", "E", "S", "D", "E">>
      [] t = "HASTA" -> <<"H", "A", "S", "T", "A">>
      [] t = "$" -> <<"$">>
      [] t = "100" -> <<"1", "0", "0">>
      [] t = "200" -> <<"2", "0", "0">>
      [] t = "300" -> <<"3", "0", "0">>
      [] t = "000000" -> <<"0", "0", "0", "0", "0", "0">>
      [] t = "01/02" -> <<"0", "1", "/", "0", "2">>
      [] t = "02/03" -> <<"0", "2", "/", "0", "3">>
      [] t = "intereses" -> <<"i", "n", "t", "e", "r", "e", "s", "e", "s">>
      [] t = "mora" -> <<"m", "o", "r", "a">>
      [] t = "otros" -> <<"o", "t", "r", "o", "s">>
      [] t = "cargos" -> <<"c", "a", "r", "g", "o", "s">>
      [] t = "avances" -> <<"a", "v", "a", "n", "c", "e", "s">>
      [] t = "cuota" -> <<"c", "u", "o", "t", "a">>
      [] t = "compras" -> <<"c", "o", "m", "p", "r", "a", "s">>
      [] t = "del" -> <<"d", "e", "l">>
      [] t = "mes" -> <<"m", "e", "s">>
      [] t = "facturadacargos" ->
           <<"f", "a", "c", "t", "u", "r", "a", "d", "a", "c", "a", "r", "g", "o", "s">>
      [] t = "y" -> <<"y">>
      [] t = "abonos" -> <<"a", "b", "o", "n", "o", "s">>
      [] t = "saldo" -> <<"s", "a", "l", "d", "o">>
      [] t = "diferir" -> <<"d", "i", "f", "e", "r", "i", "r">>
      [] t = "cuotas" -> <<"c", "u", "o", "t", "a", "s">>
      [] t = "interes" -> <<"i", "n", "t", "e", "r", "e", "s">>
      [] t = "corriente" -> <<"c", "o", "r", "r", "i", "e", "n", "t", "e">>
      [] t = "manejo" -> <<"m", "a", "n", "e", "j", "o">>
      [] t = "cupo" -> <<"c", "u", "p", "o">>
      [] t = "total" -> <<"t", "o", "t", "a", "l">>
      [] t = "hasta" -> <<"h", "a", "s", "t", "a">>
      [] t = "anterior" -> <<"a", "n", "t", "e", "r", "i", "o", "r">>
      [] t = "pagos" -> <<"p", "a", "g", "o", "s">>
      [] t = "/" -> <<"/">>
      [] t = "anteriores" ->
           <<"a", "n", "t", "e", "r", "i", "o", "r", "e", "s">>
      [] t = "VALOR" -> <<"V", "A", "L", "O", "R">>
      [] t = "INICIAL" -> <<"I", "N", "I", "C", "I", "A", "L">>
      [] t = "INTERÉS" -> <<"I", "N", "T", "E", "R", "É", "S">>
      [] t = "CRÉDITO" -> <<"C", "R", "É", "D", "I", "T", "O">>
      [] t = "FECHA" -> <<"F", "E", "C", "H", "A">>
      [] t = "PAGO" -> <<"P", "A", "G", "O">>
      [] t = "05/03/2024" ->
           <<"0", "5", "/", "0", "3", "/", "2", "0", "2", "4">>
      [] t = "CAPITAL" -> <<"C", "A", "P", "I", "T", "A", "L">>
      [] t = "1" -> <<"1">>
      [] t = "2" -> <<"2">>
      [] t = "x" -> <<"x">>
      [] t = "abc" -> <<"a", "b", "c">>
      [] t = "10" -> <<"1", "0">>
      [] t = "20" -> <<"2", "0">>
      [] t = "disponible" ->
           <<"d", "i", "s", "p", "o", "n", "i", "b", "l", "e">>
      [] t = "Con" -> <<"C", "o", "n">>
      [] t = "TU" -> <<"T", "U">>
      [] t = "El" -> <<"E", "l">>
      [] t = "Desde" -> <<"D", "e", "s", "d", "e">>
      [] t = "Producto" -> <<"P", "r", "o", "d", "u", "c", "t", "o">>
      [] t = "EN" -> <<"E", "N">>
      [] t = "De" -> <<"D", "e">>
      [] t = "ahorros" -> <<"a", "h", "o", "r", "r", "o", "s">>
      [] t = "$1,5" -> <<"$", "1", ",", "5">>
      [] t = "15" -> <<"1", "5">>
      [] t = "Saldo" -> <<"S", "a", "l", "d", "o">>
      [] t = "25.000,00" -> <<"2", "5", ".", "0", "0", "0", ",", "0", "0">>
      [] t = "1,5" -> <<"1", ",", "5">>
      [] t = "REDEBAN" -> <<"R", "E", "D", "E", "B", "A", "N">>
      [] t = "ELECTRONICA" ->
           <<"E", "L", "E", "C", "T", "R", "O", "N", "I", "C", "A">>
      [] t = "FACTURA" -> <<"F", "A", "C", "T", "U", "R", "A">>
      [] t = "" -> <<>>

\* the spelling of every token, worked out once
TokenTable == [t \in Tokens |-> Spell(t)]

\* the characters of a token
TokenChars(t) == TokenTable[t]

\* the string with the given characters
FromChars(cs) == CHOOSE t \in Tokens : TokenChars(t) = cs

\* val.lower() == word
LowerEquals(val, word) == StrLower(TokenChars(val)) = TokenChars(word)

\* text.replace(',', '')
RemoveCommas(t) == FromChars(SelectSeq(TokenChars(t), LAMBDA c : c # ","))

\* the characters of the class [0-9.,]
AmountChars == {"0", "1", "2", "3", "4", "5", "6", "7", "8", "9", ".", ","}

\* re.search(r'\$([0-9.,]+)', ...) in one token: the positions of a '$'
\* that is followed by a character of the class
AmountStarts(cs) ==
    {i \in 1..(Len(cs) - 1) : cs[i] = "$" /\ cs[i + 1] \in AmountChars}

\* group(1) of the leftmost match in a token that has one
AmountGroup(cs) ==
    LET i == CHOOSE a \in AmountStarts(cs) : \A b \in AmountStarts(cs) : a <= b
        last == CHOOSE e \in (i + 1)..Len(cs) :
                  /\ \A j \in (i + 1)..e : cs[j] \in AmountChars
                  /\ (e = Len(cs) \/ cs[e + 1] \notin AmountChars)
    IN  SubSeq(cs, i + 1, last)

\* amount_match.group(1), as it is matched
AmountGroupText(t) == FromChars(AmountGroup(TokenChars(t)))

\* amount_match.group(1).replace('.', '').replace(',', '')
AmountValue(t) ==
    FromChars(SelectSeq(AmountGroup(TokenChars(t)), LAMBDA c : c \notin {".", ","}))

RECURSIVE Flatten(_)
\* the tokens of the whole body, in order
Flatten(parts) ==
    IF parts = <<>> THEN <<>> ELSE Head(parts) \o Flatten(Tail(parts))

\* the positions, in the whole body, of the tokens the pattern matches
AmountTokens(body) ==
    LET all == Flatten(body)
    IN  {i \in 1..Len(all) : AmountStarts(TokenChars(all[i])) # {}}

RECURSIVE Join(_)
\* the tokens gathered in whe, after strip(): joined by single spaces
Join(ts) ==
    IF ts = <<>> THEN ""
    ELSE IF Len(ts) = 1 THEN ts[1]
    ELSE ts[1] \o " " \o Join(Tail(ts))

\* whe.strip().replace(',', '')
JoinNoCommas(ts) == Join([i \in 1..Len(ts) |-> RemoveCommas(ts[i])])

\* The largest number of tokens of a free-text part (the shop, the card, the
\* sender) of a body built from a template.
MaxWords == 2

PlaceWords == <<"RAPPI", "EXITO", "NORTE", "SUR">>

CardWords == <<"T.Cred", "*1234,", "Visa", "Oro">>

ProcessVerbs == {"Compraste", "Transferiste", "Pagaste", "Recibiste", "Retiraste"}

\* The body of a notification of each process, as the scanners expect it:
\* w1 tokens name the place or the other party, w2 tokens the product.
Template(verb, w1, w2) ==
    LET place == SubSeq(PlaceWords, 1, w1)
        card == SubSeq(CardWords, 1, w2)
        tail == <<"el", "23/05/2024", "a", "las", "12:05">>
    IN  CASE verb = "Transferiste" ->
               <<"Bancolombia:", verb, "$25.000,00", "desde", "tu", "cuenta",
                 "*1234", "a", "la", "cuenta", "*5678">> \o tail
          [] verb = "Pagaste" ->
               <<"Bancolombia:", verb, "$25.000,00", "a">> \o place
                 \o <<"desde", "tu", "producto", "*1234">> \o tail
          [] verb = "Recibiste" ->
               <<"Bancolombia:", verb, "un", "pago", "por", "$25.000,00", "de">>
                 \o place \o <<"en", "tu">> \o card \o tail
          [] verb = "Retiraste" ->
               <<"Bancolombia:", verb, "$25.000,00", "en">> \o place
                 \o <<"de", "tu">> \o card \o tail
          [] OTHER ->
               <<"Bancolombia:", verb, "$25.000,00", "en">> \o place
                 \o <<"con", "tu">> \o card \o tail

\* the processes whose branch is a scanning loop
ScanningVerbs == ProcessVerbs \ {"Transferiste"}

\* a sentinel word as a sender may capitalise it
SentinelCase(t) ==
    CASE t = "con" -> "Con"
      [] t = "tu" -> "TU"
      [] t = "el" -> "El"
      [] t = "desde" -> "Desde"
      [] t = "producto" -> "Producto"
      [] t = "en" -> "EN"
      [] t = "de" -> "De"
      [] OTHER -> t

\* the body with the sentinel words in the other letter case
RecasedBody(ts) == [i \in 1..Len(ts) |-> SentinelCase(ts[i])]

\* the word that ends the first free-text part in the scanner of a process
FirstSentinel(verb) ==
    CASE verb = "Pagaste" -> "desde"
      [] verb = "Recibiste" -> "en"
      [] verb = "Retiraste" -> "de"
      [] verb = "Compraste" -> "con"

\* the body whose product name holds the first sentinel word again, as in
\* "... de tu cuenta de ahorros el ..."
RepeatedBody(verb, w1, w2) ==
    LET ts == Template(verb, w1, w2)
        k == Len(ts) - 5
    IN  SubSeq(ts, 1, k) \o <<FirstSentinel(verb), "ahorros">>
          \o SubSeq(ts, k + 1, Len(ts))

\* the whole bodies: of a template, recased, with a repeated sentinel
WholeBodies ==
    { Template(verb, w1, w2) :
        verb \in ProcessVerbs \cup {"Hola"},
        w1 \in 1..MaxWords, w2 \in 1..MaxWords }
    \cup { RecasedBody(Template(verb, w1, w2)) :
             verb \in ScanningVerbs, w1 \in 1..MaxWords, w2 \in 1..MaxWords }
    \cup { RepeatedBody(verb, w1, w2) :
             verb \in ScanningVerbs, w1 \in 1..MaxWords, w2 \in 1..MaxWords }

\* the token sequences after the delimiter: a body, whole or cut short
BodyTokens ==
    UNION { { SubSeq(ts, 1, cut) : cut \in 0..Len(ts) } : ts \in WholeBodies }

\* body_preview: without the delimiter, with one, with two
NotificationBodies ==
    {<<<<"Notificacion">>>>}
    \cup { <<<<"Notificacion">>, ts>> : ts \in BodyTokens }
    \cup { <<<<"Notificacion">>, ts, <<"Hola">>>> : ts \in BodyTokens }
    \cup { <<<<"Notificacion">>, ts, <<"Saldo", "$1,5">>>> : ts \in BodyTokens }

\* the token positions the scanners test
CompraWhereIndex == 3

PagasteToIndex == 4

RecibisteFromIndexLate == 7 + 3

RecibisteFromIndex == 7

RetirasteWhereIndex == 4

TransferisteMinLen == 12

\* where enumerate() starts in the scanner of each process
ScanStart(process) ==
    CASE process = "Compraste" -> 0
      [] process = "Pagaste" -> 2
      [] process = "Recibiste" -> 5
      [] process = "Retiraste" -> 2

\* One turn of the loop of a scanner.  st holds idx_wh, whe (its tokens),
\* info and whether the loop was left by break.
CompraSteStep(st, idx, val) ==
    IF idx = CompraWhereIndex
    THEN [st EXCEPT !.idx_wh = @ + 1]
    ELSE IF st.idx_wh = 1 /\ LowerEquals(val, "con")
    THEN [st EXCEPT !.info = Put(@, "where", Join(st.whe)),
                    !.whe = <<>>, !.idx_wh = @ + 1]
    ELSE IF st.idx_wh = 1
    THEN [st EXCEPT !.whe = Append(@, val)]
    ELSE IF st.idx_wh = 2 /\ LowerEquals(val, "tu")
    THEN [st EXCEPT !.idx_wh = @ + 1]
    ELSE IF st.idx_wh = 3 /\ ~LowerEquals(val, "el")
    THEN [st EXCEPT !.whe = Append(@, val)]
    ELSE IF st.idx_wh = 3 /\ LowerEquals(val, "el")
    THEN [st EXCEPT !.info = Put(@, "with", JoinNoCommas(st.whe)),
                    !.whe = <<>>, !.idx_wh = @ + 1]
    ELSE IF st.idx_wh = 4
    THEN [st EXCEPT !.info = Put(@, "date", val), !.brk = TRUE]
    ELSE st

PagasteStep(st, idx, line) ==
    IF idx >= PagasteToIndex /\ line # "desde" /\ st.idx_wh = 0
    THEN [st EXCEPT !.whe = Append(@, line)]
    ELSE IF idx >= PagasteToIndex /\ line = "desde"
    THEN [st EXCEPT !.info = Put(@, "to", Join(st.whe)),
                    !.whe = <<>>, !.idx_wh = 1]
    ELSE IF LowerEquals(line, "producto") /\ st.idx_wh = 1
    THEN [st EXCEPT !.idx_wh = 2]
    ELSE IF st.idx_wh = 2
    THEN [st EXCEPT !.info = Put(@, "with", line), !.idx_wh = 3]
    ELSE IF LowerEquals(line, "el") /\ st.idx_wh = 3
    THEN [st EXCEPT !.idx_wh = 4]
    ELSE IF st.idx_wh = 4
    THEN [st EXCEPT !.info = Put(@, "date", line), !.brk = TRUE]
    ELSE st

RecibisteStep(st, idx, line) ==
    IF idx >= RecibisteFromIndex /\ line # "en" /\ st.idx_wh = 0
    THEN [st EXCEPT !.whe = Append(@, line)]
    ELSE IF idx >= RecibisteFromIndex /\ line = "en"
    THEN [st EXCEPT !.info = Put(@, "from", Join(st.whe)),
                    !.whe = <<>>, !.idx_wh = 1]
    ELSE IF LowerEquals(line, "tu") /\ st.idx_wh = 1
    THEN [st EXCEPT !.idx_wh = 2]
    ELSE IF st.idx_wh = 2
    THEN IF LowerEquals(line, "el")
         THEN [st EXCEPT !.info = Put(@, "with", Join(st.whe)),
                         !.whe = <<>>, !.idx_wh = 3]
         ELSE [st EXCEPT !.whe = Append(@, line)]
    ELSE IF st.idx_wh = 3
    THEN [st EXCEPT !.info = Put(@, "date", line), !.brk = TRUE]
    ELSE st

RetirasteStep(st, idx, line) ==
    IF idx >= RetirasteWhereIndex /\ line # "de" /\ st.idx_wh = 0
    THEN [st EXCEPT !.whe = Append(@, line)]
    ELSE IF idx >= RetirasteWhereIndex /\ line = "de"
    THEN [st EXCEPT !.info = Put(@, "where", Join(st.whe)),
                    !.whe = <<>>, !.idx_wh = 1]
    ELSE IF st.idx_wh = 1 /\ LowerEquals(line, "tu")
    THEN [st EXCEPT !.idx_wh = 2]
    ELSE IF st.idx_wh = 2
    THEN IF LowerEquals(line, "el")
         THEN [st EXCEPT !.info = Put(@, "with", Join(st.whe)),
                         !.whe = <<>>, !.idx_wh = 3]
         ELSE [st EXCEPT !.whe = Append(@, line)]
    ELSE IF st.idx_wh = 3
    THEN [st EXCEPT !.info = Put(@, "date", line), !.brk = TRUE]
    ELSE st

\* break: the loop is left once date is assigned
LoopLeftNever(st) == FALSE

LoopLeft(st) == st.brk

ScanStep(process, st, idx, line) ==
    CASE process = "Compraste" -> CompraSteStep(st, idx, line)
      [] process = "Pagaste" -> PagasteStep(st, idx, line)
      [] process = "Recibiste" -> RecibisteStep(st, idx, line)
      [] process = "Retiraste" -> RetirasteStep(st, idx, line)

\* {'process': 'unknown', 'error': 'Invalid body preview format'}
UnknownRecord == [process |-> "unknown", error |-> "Invalid body preview format"]

InitNotification ==
    /\ nBody \in NotificationBodies
    /\ nPc = "start"
    /\ nLines = <<>>
    /\ nInfo = EmptyDict
    /\ nIdx = 0
    /\ nIdxWh = 0
    /\ nWhe = <<>>

IdleNotification ==
    /\ nBody = <<>>
    /\ nPc = "idle"
    /\ nLines = <<>>
    /\ nInfo = EmptyDict
    /\ nIdx = 0
    /\ nIdxWh = 0
    /\ nWhe = <<>>

\* body_preview.split("\r\n\r\n\r\n")[1] without a delimiter: IndexError
DelimiterMissing ==
    /\ nPc = "start"
    /\ Len(nBody) < 2
    /\ nPc' = "raised"
    /\ UNCHANGED <<nBody, nLines, nInfo, nIdx, nIdxWh, nWhe>>
    /\ UNCHANGED notNotification

\* len(lines) < 2: the unknown record is returned
TooFewTokens ==
    /\ nPc = "start"
    /\ Len(nBody) >= 2
    /\ Len(nBody[2]) < 2
    /\ nLines' = nBody[2]
    /\ nInfo' = UnknownRecord
    /\ nPc' = "done"
    /\ UNCHANGED <<nBody, nIdx, nIdxWh, nWhe>>
    /\ UNCHANGED notNotification

\* process = lines[1]; info = {'process': process}; the amount, when the
\* pattern matches somewhere in body_preview
ReadProcess ==
    /\ nPc = "start"
    /\ Len(nBody) >= 2
    /\ Len(nBody[2]) >= 2
    /\ nLines' = nBody[2]
    /\ LET info == [process |-> nBody[2][2]]
           found == AmountTokens(nBody)
           first == CHOOSE i \in found : \A j \in found : i <= j
       IN  nInfo' = IF found = {}
                    THEN info
                    ELSE Put(info, "value", AmountValue(Flatten(nBody)[first]))
    /\ nPc' = "dispatch"
    /\ UNCHANGED <<nBody, nIdx, nIdxWh, nWhe>>
    /\ UNCHANGED notNotification

\* the branch of a scanning process is entered: idx_wh = 0, whe = ''
EnterScanner ==
    /\ nPc = "dispatch"
    /\ nInfo["process"] \in ScanningVerbs
    /\ nIdx' = ScanStart(nInfo["process"])
    /\ nIdxWh' = 0
    /\ nWhe' = <<>>
    /\ nPc' = "scan"
    /\ UNCHANGED <<nBody, nLines, nInfo>>
    /\ UNCHANGED notNotification

\* one turn of the loop of the scanner
ScanToken ==
    /\ nPc = "scan"
    /\ nIdx < Len(nLines)
    /\ LET st == ScanStep(nInfo["process"],
                          [idx_wh |-> nIdxWh, whe |-> nWhe, info |-> nInfo,
                           brk |-> FALSE],
                          nIdx, nLines[nIdx + 1])
       IN  /\ nIdxWh' = st.idx_wh
           /\ nWhe' = st.whe
           /\ nInfo' = st.info
           /\ nPc' = IF LoopLeft(st) THEN "done" ELSE "scan"
           /\ nIdx' = IF LoopLeft(st) THEN nIdx ELSE nIdx + 1
    /\ UNCHANGED <<nBody, nLines>>
    /\ UNCHANGED notNotification

\* the loop ends with the tokens; info is returned
ScanExhausted ==
    /\ nPc = "scan"
    /\ nIdx >= Len(nLines)
    /\ nPc' = "done"
    /\ UNCHANGED <<nBody, nLines, nInfo, nIdx, nIdxWh, nWhe>>
    /\ UNCHANGED notNotification

\* process == 'Transferiste': fixed positions, when there are more than 12
\* tokens
Transferiste ==
    /\ nPc = "dispatch"
    /\ nInfo["process"] = "Transferiste"
    /\ nInfo' = IF Len(nLines) > TransferisteMinLen
                THEN Put(Put(Put(nInfo,
                         "from", nLines[6] \o " " \o nLines[7]),
                         "to", nLines[10] \o " " \o nLines[11]),
                         "date", nLines[13])
                ELSE nInfo
    /\ nPc' = "done"
    /\ UNCHANGED <<nBody, nLines, nIdx, nIdxWh, nWhe>>
    /\ UNCHANGED notNotification

\* no branch matches the process: info is returned as it is
NoTemplate ==
    /\ nPc = "dispatch"
    /\ nInfo["process"] \notin ProcessVerbs
    /\ nPc' = "done"
    /\ UNCHANGED <<nBody, nLines, nInfo, nIdx, nIdxWh, nWhe>>
    /\ UNCHANGED notNotification

NextNotification ==
    \/ DelimiterMissing
    \/ TooFewTokens
    \/ ReadProcess
    \/ EnterScanner
    \/ ScanToken
    \/ ScanExhausted
    \/ Transferiste
    \/ NoTemplate

(***************************************************************************)
(* Claims about the notification parser.                                   *)
(***************************************************************************)
\* C6 (as stated): whenever fewer than two tokens follow the header
\* delimiter, or the second token is not one of the five verbs, the parser
\* returns exactly {process: "unknown", error: "Invalid body preview format"}.
C6_UnknownRecordReturned ==
    (nPc = "done" /\ (Len(nLines) < 2 \/ nLines[2] \notin ProcessVerbs)) =>
        nInfo = UnknownRecord

\* the field set documented for each verb
DocumentedFields(verb) ==
    CASE verb = "Compraste" -> {"process", "value", "where", "with", "date"}
      [] verb = "Transferiste" -> {"process", "value", "from", "to", "date"}
      [] verb = "Pagaste" -> {"process", "value", "to", "with", "date"}
      [] verb = "Recibiste" -> {"process", "value", "from", "with", "date"}
      [] verb = "Retiraste" -> {"process", "value", "where", "with", "date"}

\* the tokens parsed are a whole body of the verb's template
IsCanonical(verb) ==
    \E w1 \in 1..MaxWords, w2 \in 1..MaxWords : nLines = Template(verb, w1, w2)

\* C7: for a canonical body of each of the five verbs the parser returns
\* the verb as process and exactly the documented field set, no other key.
C7_DocumentedFieldSet ==
    \A verb \in ProcessVerbs :
        (nPc = "done" /\ IsCanonical(verb)) =>
            /\ DOMAIN nInfo = DocumentedFields(verb)
            /\ nInfo["process"] = verb

\* C7 witness: a canonical Recibiste body was parsed to the end.
C7_Witness ==
    /\ nPc = "done"
    /\ IsCanonical("Recibiste")
    /\ "from" \in DOMAIN nInfo

\* the fields a scanner assigns
ScannerFields == {"where", "with", "from", "to", "date"}

\* C17: each of the four scanners terminates on every token sequence: a
\* turn of the loop consumes one token of the finitely many, so the tokens
\* left decrease with every turn; the loop is left in the turn that
\* assigns date, so that no token after the date token changes a field;
\* otherwise it ends when the tokens are exhausted and the fields assigned
\* so far are returned.
C17_ScannerStops ==
    /\ [](nPc = "scan" => "date" \notin DOMAIN nInfo)
    /\ [][nPc = "scan" =>
            ( \/ (nPc' = "scan" /\ nIdx < Len(nLines) /\ nIdx' = nIdx + 1)
              \/ (nPc' = "done" /\ nIdx < Len(nLines)
                    /\ "date" \in DOMAIN nInfo')
              \/ (nPc' = "done" /\ nIdx >= Len(nLines) /\ nInfo' = nInfo) )
         ]_vars

\* C17 witness: a scanner has returned after assigning date while tokens
\* were left after the date token.
C17_Witness ==
    /\ nPc = "done"
    /\ nInfo["process"] \in ScanningVerbs
    /\ "date" \in DOMAIN nInfo
    /\ nIdx + 1 < Len(nLines)

RECURSIVE ScanAll(_, _, _, _)
\* the state in which the loop of a scanner ends on a token sequence
ScanAll(process, st, idx, lines) ==
    IF idx >= Len(lines) \/ st.brk THEN st
    ELSE ScanAll(process, ScanStep(process, st, idx, lines[idx + 1]),
                 idx + 1, lines)

\* the fields the scanner of a verb assigns on a token sequence
ScannedFields(verb, lines) ==
    LET info == ScanAll(verb, [idx_wh |-> 0, whe |-> <<>>,
                               info |-> [process |-> verb], brk |-> FALSE],
                        ScanStart(verb), lines).info
    IN  [f \in DOMAIN info \cap ScannerFields |-> info[f]]

\* C18: in every template the sentinel tokens are recognised after
\* lowercasing: a body that differs from a template body only in the
\* letter case of its sentinel tokens yields the same fields as that body.
C18_SentinelCaseIgnored ==
    \A verb \in ScanningVerbs, w1 \in 1..MaxWords, w2 \in 1..MaxWords :
        (nPc = "done" /\ nLines = RecasedBody(Template(verb, w1, w2))) =>
            [f \in DOMAIN nInfo \cap ScannerFields |-> nInfo[f]]
              = ScannedFields(verb, Template(verb, w1, w2))

\* C19: in every scanner the mode counter only advances, and a free-text
\* field once assigned is not assigned again by a later occurrence of an
\* earlier sentinel.
C19_ModeOnlyAdvances ==
    [][nPc = "scan" =>
         ( /\ nIdxWh' >= nIdxWh
           /\ \A f \in {"where", "with", "from", "to"} :
                (f \in DOMAIN nInfo => nInfo'[f] = nInfo[f]) )
      ]_vars

\* body_preview holds a currency sign followed by a character of the
\* digit group
BodyHasAmount ==
    \E i \in 1..Len(Flatten(nBody)) :
        AmountStarts(TokenChars(Flatten(nBody)[i])) # {}

\* the digits of the first digit group of body_preview that follows a
\* currency sign
FirstAmountDigits ==
    LET all == Flatten(nBody)
        first == CHOOSE i \in 1..Len(all) :
                   /\ AmountStarts(TokenChars(all[i])) # {}
                   /\ \A j \in 1..(i - 1) :
                        AmountStarts(TokenChars(all[j])) = {}
    IN  FromChars(SelectSeq(AmountGroup(TokenChars(all[first])),
                            LAMBDA c : c \in AmountChars \ {".", ","}))

\* a step leaves value as it is: absent, or present with the same text
AmountKept ==
    /\ ("value" \in DOMAIN nInfo') <=> ("value" \in DOMAIN nInfo)
    /\ "value" \in DOMAIN nInfo => nInfo'["value"] = nInfo["value"]

\* C20: for a body with a verb token, recognised or not, value is present
\* iff the body holds a currency sign followed by a digit group; it is
\* that group without its separators, whichever the verb; and no step
\* after the amount is read (choice of the template, scanner) changes it.
C20_AmountIndependent ==
    /\ []((nPc = "done" /\ Len(nLines) >= 2) =>
            /\ ("value" \in DOMAIN nInfo) <=> BodyHasAmount
            /\ BodyHasAmount => nInfo["value"] = FirstAmountDigits)
    /\ [][(nPc \in {"dispatch", "scan"}) => AmountKept]_vars

\* C20 witness: a scanner has assigned its fields up to date and the
\* amount read before it is still the value.
C20_Witness ==
    /\ nPc = "done"
    /\ nInfo["process"] \in ScanningVerbs
    /\ "date" \in DOMAIN nInfo
    /\ "value" \in DOMAIN nInfo
    /\ nInfo["value"] = "2500000"

(***************************************************************************)
(* The credit-card summary parser (extract_statements.py).  A line of the  *)
(* statement text is kept as the sequence of its words; its text is the   *)
(* words joined by single spaces.  The amounts of the statements modelled  *)
(* are whole numbers.                                                      *)
(***************************************************************************)
\* the longest statement text, in lines
MaxLines == 3

RECURSIVE LineChars(_)
\* the characters of a line
LineChars(ws) ==
    IF ws = <<>> THEN <<>>
    ELSE IF Len(ws) = 1 THEN TokenChars(ws[1])
    ELSE TokenChars(ws[1]) \o <<" ">> \o LineChars(Tail(ws))

\* key in lower_line, with lower_line = line.lower()
KeyInText(key, ws) == Contains(LineChars(key), StrLower(LineChars(ws)))

Digits == <<"0", "1", "2", "3", "4", "5", "6", "7", "8", "9">>

DigitValue(c) == (CHOOSE i \in 1..Len(Digits) : Digits[i] = c) - 1

RECURSIVE WholeNumber(_)
\* float(cleaned) of a text of digits
WholeNumber(cs) ==
    IF cs = <<>> THEN 0
    ELSE 10 * WholeNumber(SubSeq(cs, 1, Len(cs) - 1)) + DigitValue(cs[Len(cs)])

\* safe_float(value): commas and the sign are taken out, a text that is
\* not a number gives 0.0, a '-' anywhere in the text makes it negative
safe_float(cs) ==
    LET cleaned == SelectSeq(cs, LAMBDA c : c \notin {",", "-"})
        isNumber == /\ cleaned # <<>>
                    /\ \A i \in 1..Len(cleaned) :
                         \E d \in 1..Len(Digits) : Digits[d] = cleaned[i]
    IN  IF ~isNumber THEN 0
        ELSE IF \E i \in 1..Len(cs) : cs[i] = "-" THEN 0 - WholeNumber(cleaned)
        ELSE WholeNumber(cleaned)

\* extract_numbers(line): the maximal runs of [\d,.] that are neither ","
\* nor ".", each with the position it starts at
extract_numbers(cs) ==
    LET starts == {i \in 1..Len(cs) :
                     cs[i] \in AmountChars /\ (i = 1 \/ cs[i - 1] \notin AmountChars)}
        EndOf(i) == CHOOSE e \in i..Len(cs) :
                      /\ \A j \in i..e : cs[j] \in AmountChars
                      /\ (e = Len(cs) \/ cs[e + 1] \notin AmountChars)
        runs == {<<i, SubSeq(cs, i, EndOf(i))>> : i \in starts}
    IN  {r \in runs : r[2] # <<",">> /\ r[2] # <<".">>}

\* numbers[0]
FirstNumber(numbers) ==
    (CHOOSE r \in numbers : \A q \in numbers : r[1] <= q[1])[2]

\* the statement lines the model draws a text from
CardLines ==
    {<<"INTERESES", "DE", "MORA", "100">>,
     <<"INTERESES", "DE", "MORA", "200">>,
     <<"INTERESES", "DE", "MORA">>,
     <<"Intereses", "corrientes", "300">>,
     <<"OTROS", "CARGOS", "100">>,
     <<"AVANCES", "200">>,
     <<"CUOTA", "AVANCES", "300">>,
     <<"CUOTA", "COMPRAS", "DEL", "MES", "200">>,
     <<"FACTURADACARGOS", "Y", "ABONOS", "SALDO", "A", "DIFERIR", "CUOTAS">>,
     <<"01/02", "INTERES", "CORRIENTE", "100", "200", "300">>,
     <<"000000", "01/02", "CUOTA", "DE", "MANEJO", "100", "200", "300">>,
     <<"CUPO", "TOTAL">>,
     <<"$", "100", "$", "200", "DESDE", "01/02", "HASTA", "02/03">>,
     <<"000000", "05/03/2024", "COMPRAS", "100", "200", "300", "100", "200",
       "01/02">>}

\* the texts of at most MaxLines lines
CardTexts ==
    UNION {[1..n -> CardLines] : n \in 0..MaxLines}

\* flags, as parse_credit_card_summary sets them up
InitialFlags ==
    [long_interes |-> 0, interes_corriente |-> 0, other_charges |-> 0,
     interest_payment |-> FALSE, service_fee |-> FALSE]

\* summary_fields: the label looked for, the bucket written, the name
\* written under and the flag of the label
summary_fields ==
    <<[key |-> <<"saldo", "anterior">>, target |-> "total",
       name |-> "Saldo Anterior", flag |-> None],
      [key |-> <<"compras", "del", "mes">>, target |-> "total",
       name |-> "Compras del mes", flag |-> None],
      [key |-> <<"intereses", "de", "mora">>, target |-> "total",
       name |-> "Intereses de mora", flag |-> "long_interes"],
      [key |-> <<"intereses", "de", "mora">>, target |-> "minimum",
       name |-> "Intereses de mora", flag |-> "long_interes"],
      [key |-> <<"intereses", "corrientes">>, target |-> "total",
       name |-> "Intereses corrientes", flag |-> "interes_corriente"],
      [key |-> <<"intereses", "corrientes">>, target |-> "minimum",
       name |-> "Intereses corrientes", flag |-> "interes_corriente"],
      [key |-> <<"avances">>, target |-> "total",
       name |-> "Avances", flag |-> None],
      [key |-> <<"cuota", "avances">>, target |-> "minimum",
       name |-> "Cuota avances", flag |-> None],
      [key |-> <<"otros", "cargos">>, target |-> "total",
       name |-> "Otros cargos", flag |-> "other_charges"],
      [key |-> <<"otros", "cargos">>, target |-> "minimum",
       name |-> "Otros cargos", flag |-> "other_charges"],
      [key |-> <<"pagos", "/", "abonos">>, target |-> "total",
       name |-> "Pagos / abonos", flag |-> None],
      [key |-> <<"cuota", "compras", "anteriores">>, target |-> "minimum",
       name |-> "Cuota compras anteriores", flag |-> None],
      [key |-> <<"cuota", "compras", "del", "mes">>, target |-> "minimum",
       name |-> "Cuota compras del mes", flag |-> None],
      [key |-> <<"saldo", "en", "mora">>, target |-> "minimum",
       name |-> "Saldo en mora", flag |-> None]>>

\* the header of the interest table
HeaderPhrase ==
    <<"facturadacargos", "y", "abonos", "saldo", "a", "diferir", "cuotas">>

\* the phrases parse_credit_card_summary looks for in a line
SummaryKeys ==
    {summary_fields[k].key : k \in 1..Len(summary_fields)}
      \cup {<<"cupo", "total">>, <<"disponible", "total">>, HeaderPhrase}

\* for every phrase and line, whether the phrase is in the line; worked
\* out once
KeyTable == [key \in SummaryKeys, ws \in CardLines |-> KeyInText(key, ws)]

\* key in lower_line
KeyInLine(key, ws) == KeyTable[key, ws]

\* extract_numbers(line) of every line, worked out once
NumbersTable == [ws \in CardLines |-> extract_numbers(LineChars(ws))]

\* lower_line.split() of every line, worked out once
LowerWordsTable ==
    [ws \in CardLines |->
       [i \in 1..Len(ws) |-> FromChars(StrLower(TokenChars(ws[i])))]]

\* lower_line.split()
LowerWords(ws) == LowerWordsTable[ws]

\* InterestRecord(...)
InterestRecord(fecha, descripcion, valor, cargos, saldo) ==
    [fecha |-> fecha, descripcion |-> descripcion,
     valor_original |-> safe_float(TokenChars(valor)),
     cargos_abonos |-> safe_float(TokenChars(cargos)),
     saldo_diferir |-> safe_float(TokenChars(saldo))]

\* a word of the class [\d,.]+
IsAmountWord(w) ==
    /\ TokenChars(w) # <<>>
    /\ \A i \in 1..Len(TokenChars(w)) : TokenChars(w)[i] \in AmountChars

\* a word \d{6}
IsAuthorization(w) ==
    /\ Len(TokenChars(w)) = 6
    /\ \A i \in 1..6 : TokenChars(w)[i] \in AmountChars \ {".", ","}

\* a word \d{2}/\d{2}/\d{4}
IsFullDate(w) ==
    LET cs == TokenChars(w)
    IN  /\ Len(cs) = 10
        /\ \A i \in 1..10 :
             IF i \in {3, 6} THEN cs[i] = "/"
             ELSE cs[i] \in AmountChars \ {".", ","}

\* a word [\d,.]+-?
IsSignedAmountWord(w) ==
    LET cs == TokenChars(w)
    IN  \/ IsAmountWord(w)
        \/ /\ Len(cs) >= 2
           /\ cs[Len(cs)] = "-"
           /\ \A i \in 1..(Len(cs) - 1) : cs[i] \in AmountChars

\* a word that starts with [\d/]+
StartsInstalments(w) ==
    /\ TokenChars(w) # <<>>
    /\ TokenChars(w)[1] \in (AmountChars \ {".", ","}) \cup {"/"}

\* CREDIT_CARD_PATTERN.match(line.strip()): the places where the
\* description of a match can end
DescriptionEnds(ws) ==
    {k \in 3..(Len(ws) - 6) :
       /\ IsAuthorization(ws[1])
       /\ IsFullDate(ws[2])
       /\ \A j \in 1..3 : IsAmountWord(ws[k + j])
       /\ IsSignedAmountWord(ws[k + 4])
       /\ IsAmountWord(ws[k + 5])
       /\ StartsInstalments(ws[k + 6])}

\* CreditCardRecord(...) of a line the pattern matches: the description is
\* the shortest one
CreditCardRecord(ws) ==
    LET k == CHOOSE e \in DescriptionEnds(ws) :
               \A f \in DescriptionEnds(ws) : e <= f
    IN  [autorizacion |-> ws[1], fecha |-> ws[2],
         descripcion |-> Join(SubSeq(ws, 3, k)),
         valor_original |-> safe_float(TokenChars(ws[k + 1])),
         tasa_pactada |-> ws[k + 2], tasa_ea |-> ws[k + 3],
         cargos_abonos |-> safe_float(TokenChars(ws[k + 4])),
         saldo_diferir |-> safe_float(TokenChars(ws[k + 5])),
         cuotas |-> ws[k + 6]]

RECURSIVE parse_credit_card_lines(_)
\* parse_credit_card_lines: a record for every line the pattern matches
parse_credit_card_lines(lines) ==
    IF lines = <<>> THEN <<>>
    ELSE (IF DescriptionEnds(Head(lines)) # {}
          THEN <<CreditCardRecord(Head(lines))>> ELSE <<>>)
           \o parse_credit_card_lines(Tail(lines))

\* the if / elif chain on one line; st holds summary, total, minimum,
\* other_lines and flags, index counts the lines from 1
LineBlocks(st, lines, index) ==
    LET ws == lines[index]
        parts == LowerWords(ws)
    IN  IF KeyInLine(<<"cupo", "total">>, ws) /\ index < Len(lines)
        THEN LET values == lines[index + 1]
             IN  IF Len(values) >= 8
                 THEN [st EXCEPT !.summary =
                         Put(Put(Put(Put(@,
                           "Cupo Total", safe_float(TokenChars(values[2]))),
                           "Cupo de Avances", safe_float(TokenChars(values[4]))),
                           "from", values[6]),
                           "to", values[8])]
                 ELSE st
        ELSE IF st.flags.interest_payment
        THEN [st EXCEPT
                !.other_lines =
                    IF Len(parts) >= 6
                    THEN Append(@, InterestRecord(parts[1],
                                     Join(<<parts[2], parts[3]>>),
                                     parts[4], parts[5], parts[6]))
                    ELSE @,
                !.flags.interest_payment = FALSE,
                !.flags.service_fee = TRUE]
        ELSE IF st.flags.service_fee /\ Len(parts) = 8
        THEN [st EXCEPT
                !.other_lines =
                    Append(@, InterestRecord(parts[2],
                                Join(<<parts[3], parts[4], parts[5]>>),
                                parts[6], parts[7], parts[8]))]
        ELSE IF KeyInLine(<<"disponible", "total">>, ws) /\ index < Len(lines)
        THEN LET values == lines[index + 1]
             IN  IF Len(values) >= 5
                 THEN [st EXCEPT !.summary =
                         Put(Put(Put(@,
                           "Disponible Total", safe_float(TokenChars(values[2]))),
                           "Disponible de Avances", safe_float(TokenChars(values[4]))),
                           "pay before", values[5])]
                 ELSE st
        ELSE st

\* one entry of summary_fields applied to a line
ApplyField(st, field, ws) ==
    LET numbers == NumbersTable[ws]
        value == safe_float(FirstNumber(numbers))
        written == IF field.target = "total"
                   THEN [st EXCEPT !.total = Put(@, field.name, value)]
                   ELSE [st EXCEPT !.minimum = Put(@, field.name, value)]
    IN  IF ~(KeyInLine(field.key, ws) /\ numbers # {}) THEN st
        ELSE IF field.flag # None /\ st.flags[field.flag] = 0
        THEN [written EXCEPT !.flags[field.flag] = 1]
        ELSE IF field.flag # None /\ st.flags[field.flag] = 1
        THEN [written EXCEPT !.flags[field.flag] = 0]
        ELSE IF field.flag = None THEN written
        ELSE st

RECURSIVE ApplyFields(_, _, _)
\* for field in summary_fields, from entry k on
ApplyFields(st, ws, k) ==
    IF k > Len(summary_fields) THEN st
    ELSE ApplyFields(ApplyField(st, summary_fields[k], ws), ws, k + 1)

\* the header of the interest table switches interest_payment on
HeaderSeen(st, ws) ==
    IF KeyInLine(HeaderPhrase, ws)
    THEN [st EXCEPT !.flags.interest_payment = TRUE]
    ELSE st

\* the body of the loop over text_lines
SummaryLoopBody(st, lines, index) ==
    HeaderSeen(ApplyFields(LineBlocks(st, lines, index), lines[index], 1),
               lines[index])

SummaryState ==
    [summary |-> sSummary, total |-> sTotal, minimum |-> sMinimum,
     other_lines |-> sOther, flags |-> sFlags]

InitCard ==
    /\ sLines \in CardTexts
    /\ sIdx = 0
    /\ sPc = "loop"
    /\ sSummary = EmptyDict
    /\ sTotal = EmptyDict
    /\ sMinimum = EmptyDict
    /\ sOther = <<>>
    /\ sFlags = InitialFlags
    /\ sRet = None
    /\ sStatement = None

IdleCard ==
    /\ sLines = <<>>
    /\ sIdx = 0
    /\ sPc = "idle"
    /\ sSummary = EmptyDict
    /\ sTotal = EmptyDict
    /\ sMinimum = EmptyDict
    /\ sOther = <<>>
    /\ sFlags = InitialFlags
    /\ sRet = None
    /\ sStatement = None

\* one turn of the loop: line sIdx + 1 is read
SummaryLine ==
    /\ sPc = "loop"
    /\ sIdx < Len(sLines)
    /\ LET st == SummaryLoopBody(SummaryState, sLines, sIdx + 1)
       IN  /\ sSummary' = st.summary
           /\ sTotal' = st.total
           /\ sMinimum' = st.minimum
           /\ sOther' = st.other_lines
           /\ sFlags' = st.flags
    /\ sIdx' = sIdx + 1
    /\ UNCHANGED <<sLines, sPc, sRet, sStatement>>
    /\ UNCHANGED notCard

\* the loop is over: the four parts are returned
SummaryReturn ==
    /\ sPc = "loop"
    /\ sIdx = Len(sLines)
    /\ sPc' = "done"
    /\ sRet' = [summary |-> sSummary, total |-> sTotal,
                minimum |-> sMinimum, other_lines |-> sOther]
    /\ UNCHANGED <<sLines, sIdx, sSummary, sTotal, sMinimum, sOther, sFlags,
                   sStatement>>
    /\ UNCHANGED notCard

\* pdfplumber.open raises: the except block returns {}
StatementOpenRaises ==
    /\ sPc = "loop"
    /\ sIdx = 0
    /\ sPc' = "unreadable"
    /\ sStatement' = EmptyDict
    /\ UNCHANGED <<sLines, sIdx, sSummary, sTotal, sMinimum, sOther, sFlags,
                   sRet>>
    /\ UNCHANGED notCard

\* parse_credit_card_lines(text_lines) and the record returned
StatementReturn ==
    /\ sPc = "done"
    /\ sPc' = "returned"
    /\ sStatement' =
         [summary_statement_total |-> sRet.total,
          summary_statement_minimum |-> sRet.minimum,
          Statement_lines |->
              sRet.other_lines \o parse_credit_card_lines(sLines),
          type |-> "Credit Card"]
           @@ [k \in {"Cupo Total", "Cupo de Avances", "from", "to",
                      "Disponible Total", "Disponible de Avances",
                      "pay before"} |-> Get(sRet.summary, k)]
    /\ UNCHANGED <<sLines, sIdx, sSummary, sTotal, sMinimum, sOther, sFlags,
                   sRet>>
    /\ UNCHANGED notCard

NextCard ==
    \/ SummaryLine
    \/ SummaryReturn
    \/ StatementOpenRaises
    \/ StatementReturn

(***************************************************************************)
(* Claims about the credit-card summary parser.                            *)
(***************************************************************************)
\* the labels summary_fields lists twice
DuplicatedLabels ==
    {[key |-> <<"intereses", "de", "mora">>, name |-> "Intereses de mora",
      flag |-> "long_interes"],
     [key |-> <<"intereses", "corrientes">>, name |-> "Intereses corrientes",
      flag |-> "interes_corriente"],
     [key |-> <<"otros", "cargos">>, name |-> "Otros cargos",
      flag |-> "other_charges"]}

\* the lines read so far that carry the label and a number
Occurrences(label) ==
    {i \in 1..sIdx : /\ KeyInLine(label.key, sLines[i])
                     /\ NumbersTable[sLines[i]] # {}}

\* the value a line carries
LineValue(i) == safe_float(FirstNumber(NumbersTable[sLines[i]]))

\* C8: when a duplicated label (intereses de mora, intereses corrientes,
\* otros cargos) occurs on two lines, the value of the first occurrence
\* is in the total bucket and the value of the second in the minimum
\* bucket, and the flag of the label is back at 0; after the first
\* occurrence alone only the total bucket holds the label.
C8_FirstTotalSecondMinimum ==
    sPc \in {"loop", "done"} =>
      \A label \in DuplicatedLabels :
        LET occ == Occurrences(label)
            first == CHOOSE i \in occ : \A j \in occ : i <= j
            second == CHOOSE i \in occ : \A j \in occ : j <= i
        IN  /\ Cardinality(occ) = 1 =>
                 /\ label.name \in DOMAIN sTotal
                 /\ sTotal[label.name] = LineValue(first)
                 /\ label.name \notin DOMAIN sMinimum
            /\ Cardinality(occ) = 2 =>
                 /\ label.name \in DOMAIN sTotal
                 /\ sTotal[label.name] = LineValue(first)
                 /\ label.name \in DOMAIN sMinimum
                 /\ sMinimum[label.name] = LineValue(second)
                 /\ sFlags[label.flag] = 0

\* summary, total, minimum, other_lines and flags before the first line
FirstSummaryState ==
    [summary |-> EmptyDict, total |-> EmptyDict, minimum |-> EmptyDict,
     other_lines |-> <<>>, flags |-> InitialFlags]

RECURSIVE InterestSources(_, _, _)
\* the lines, in the order of the document, at which the loop of
\* parse_credit_card_summary appends a record to other_lines
InterestSources(st, lines, index) ==
    IF index > Len(lines) THEN <<>>
    ELSE LET after == SummaryLoopBody(st, lines, index)
         IN  (IF Len(after.other_lines) > Len(st.other_lines)
              THEN <<index>> ELSE <<>>)
               \o InterestSources(after, lines, index + 1)

\* the lines, in the order of the document, that give a transaction record
TransactionSources(lines) ==
    SelectSeq([i \in 1..Len(lines) |-> i],
              LAMBDA i : DescriptionEnds(lines[i]) # {})

\* the source line of every record of Statement_lines, in the order of
\* Statement_lines
StatementSources ==
    InterestSources(FirstSummaryState, sLines, 1) \o TransactionSources(sLines)

\* C23: Statement_lines is ordered as the source: of two emitted records
\* the one whose source line comes first in the document comes first in
\* the sequence, interest, service-fee and transaction records together.
C23_LinesInSourceOrder ==
    (sPc = "returned"
       /\ Len(sStatement["Statement_lines"]) = Len(StatementSources)) =>
        \A a, b \in 1..Len(StatementSources) :
            a < b => StatementSources[a] <= StatementSources[b]

\* the labels of the minimum section that hold a label of the total section
MinimumSectionKeys ==
    {<<"cuota", "avances">>, <<"cuota", "compras", "del", "mes">>}

\* the labels of the total section they hold
TotalSectionKeys == {<<"avances">>, <<"compras", "del", "mes">>}

\* what a turn of the loop on a line with a section label leaves alone
BucketKept ==
    LET ws == sLines[sIdx + 1]
        minimumLine == \E key \in MinimumSectionKeys : KeyInLine(key, ws)
        totalLine == \E key \in TotalSectionKeys : KeyInLine(key, ws)
    IN  /\ minimumLine => sTotal' = sTotal
        /\ (totalLine /\ ~minimumLine) => sMinimum' = sMinimum

\* C26: a summary line updates only the bucket entry its own label names:
\* a line with a label of the minimum section (cuota avances, cuota
\* compras del mes) leaves every entry of the total bucket (Avances,
\* Compras del mes) as it was, and a line with a label of the total
\* section leaves the minimum bucket as it was.
C26_OwnBucketOnly ==
    [][(sPc = "loop" /\ sIdx < Len(sLines)) => BucketKept]_vars

\* the header phrase is in a line before line i
HeaderBefore(i) ==
    \E j \in 1..(i - 1) : KeyInLine(HeaderPhrase, sLines[j])

\* line i is the line that follows a header
FollowsHeader(i) == i > 1 /\ KeyInLine(HeaderPhrase, sLines[i - 1])

\* what a turn of the loop on line sIdx + 1 does to other_lines
InterestTableStep ==
    LET i == sIdx + 1
        ws == sLines[i]
        parts == LowerWords(ws)
        asInterest == Append(sOther, InterestRecord(parts[1],
                                       Join(<<parts[2], parts[3]>>),
                                       parts[4], parts[5], parts[6]))
        asFee == Append(sOther, InterestRecord(parts[2],
                                  Join(<<parts[3], parts[4], parts[5]>>),
                                  parts[6], parts[7], parts[8]))
    IN  IF ~HeaderBefore(i) THEN sOther' = sOther /\ sOther = <<>>
        ELSE IF FollowsHeader(i)
        THEN sOther' = IF Len(parts) >= 6 THEN asInterest ELSE sOther
        ELSE IF Len(parts) = 8 /\ ~KeyInLine(<<"cupo", "total">>, ws)
        THEN sOther' = asFee
        ELSE KeyInLine(<<"cupo", "total">>, ws) \/ sOther' = sOther

\* C27: no InterestRecord is produced before the header phrase has been
\* seen; after the header exactly the next line is tried as the 6-field
\* interest line; from then to the end of the document every line of
\* exactly 8 tokens that does not hold 'cupo total' is captured as a
\* service-fee record.
C27_InterestTable ==
    [][(sPc = "loop" /\ sIdx < Len(sLines)) => InterestTableStep]_vars

(***************************************************************************)
(* The loan statement parser (extract_statements.py): parse_summary_credit,*)
(* parse_credit_information and parse_credit_statement.  A line is the     *)
(* sequence line.split(" ") gives, the empty strings of it included.       *)
(***************************************************************************)
\* the statement lines the model draws a text from
LoanLines ==
    {<<"MORA", "DESDE", "05/03/2024">>,
     <<"VALOR", "INICIAL", "100">>,
     <<"SALDO", "DE", "CAPITAL", "200">>,
     <<"TOTAL", "100", "200">>,
     <<"TOTAL", "100">>,
     <<"TOTAL", "">>,
     <<"TOTAL">>,
     <<"INTERÉS", "MORA", "10", "20">>,
     <<"SALDO", "DE", "CRÉDITO">>,
     <<"FECHA", "DE", "PAGO", "05/03/2024">>,
     <<"300">>}

\* the texts of at most MaxLines lines
LoanTexts ==
    UNION {[1..n -> LoanLines] : n \in 0..MaxLines}

\* concepts of parse_summary_credit
SummaryConcepts ==
    {"ABONO A CAPITAL ", "INTERÉS CORRIENTE ", "INTERÉS MORA ",
     "SEGURO VIDA ", "OTROS CONCEPTOS ", "COMISIÓN FNG/FAG ",
     "IVA FNG/FAG ", "TOTAL "}

\* concepts of parse_credit_information
InformationConcepts ==
    {"FECHA DE DESEMBOLSO", "VALOR INICIAL", "FECHA CORTE EXTRACTO",
     "SALDO DE CAPITAL", "TASA DE INTERÉS E.A.", "CUOTA NÚMERO",
     "TASA MORA A LA FECHA", "SALDO EN MORA CAPITAL",
     "Nº DE CUOTAS EN MORA", "FECHA ÚLTIMO PAGO", "MORA DESDE"}

\* concept, once the words up to idx have been added, each with a space
ConceptUpTo(new_line, idx) == Join(SubSeq(new_line, 1, idx)) \o " "

\* new_line[idx + 1] is read past the end of the line: IndexError
SummaryLineRaises(new_line) ==
    \E idx \in 1..Len(new_line) :
      /\ ConceptUpTo(new_line, idx) \in SummaryConcepts
      /\ idx + 1 > Len(new_line)

RECURSIVE SummaryOfLine(_, _, _)
\* the inner loop of parse_summary_credit, from word idx on
SummaryOfLine(summary, new_line, idx) ==
    IF idx > Len(new_line) THEN summary
    ELSE IF ConceptUpTo(new_line, idx) \in SummaryConcepts
    THEN SummaryOfLine(
           Put(summary, Join(SubSeq(new_line, 1, idx)),
               [previous_payment |-> new_line[idx + 1],
                payment |-> IF idx + 2 > Len(new_line) THEN 0
                            ELSE new_line[idx + 2]]),
           new_line, idx + 1)
    ELSE SummaryOfLine(summary, new_line, idx + 1)

RECURSIVE parse_summary_credit(_, _)
\* parse_summary_credit on lines that do not make it raise
parse_summary_credit(summary, lines) ==
    IF lines = <<>> THEN summary
    ELSE parse_summary_credit(SummaryOfLine(summary, Head(lines), 1),
                              Tail(lines))

\* the concepts " ".join(new_line[idx:-1]) equals for some idx
MatchedConcepts(new_line) ==
    {c \in InformationConcepts :
       \E idx \in 0..Len(new_line) :
         Join(SubSeq(new_line, idx + 1, Len(new_line) - 1)) = c}

RECURSIVE InformationOfLines(_, _)
\* the loop of parse_credit_information: a matched concept takes the last
\* word of its line
InformationOfLines(info, lines) ==
    IF lines = <<>> THEN info
    ELSE LET new_line == Head(lines)
             matched == MatchedConcepts(new_line)
         IN  InformationOfLines(
               [c \in DOMAIN info \cup matched |->
                  IF c \in matched THEN new_line[Len(new_line)] ELSE info[c]],
               Tail(lines))

\* parse_credit_information: the concepts that are lacking get ''
parse_credit_information(lines) ==
    LET found == InformationOfLines(EmptyDict, lines)
    IN  [c \in InformationConcepts |-> IF c \in DOMAIN found THEN found[c] ELSE ""]

InitLoan ==
    /\ lLines \in LoanTexts
    /\ lPc = "open"
    /\ lIdx = 0
    /\ lSummary = EmptyDict
    /\ lStatement = EmptyDict
    /\ lRet = None

IdleLoan ==
    /\ lLines = <<>>
    /\ lPc = "idle"
    /\ lIdx = 0
    /\ lSummary = EmptyDict
    /\ lStatement = EmptyDict
    /\ lRet = None

\* the return of the except block
LoanFails(pc) ==
    /\ lPc' = pc
    /\ lRet' = EmptyDict
    /\ UNCHANGED <<lLines, lIdx, lSummary, lStatement>>
    /\ UNCHANGED notLoan

\* pdfplumber.open raises (wrong password, not a PDF)
OpenRaises ==
    /\ lPc = "open"
    /\ LoanFails("unreadable")

\* the pages are read into text_lines
ReadPages ==
    /\ lPc = "open"
    /\ lPc' = "summary"
    /\ UNCHANGED <<lLines, lIdx, lSummary, lStatement, lRet>>
    /\ UNCHANGED notLoan

ParseSummaryCredit ==
    /\ lPc = "summary"
    /\ \A i \in 1..Len(lLines) : ~SummaryLineRaises(lLines[i])
    /\ lSummary' = parse_summary_credit(EmptyDict, lLines)
    /\ lPc' = "information"
    /\ UNCHANGED <<lLines, lIdx, lStatement, lRet>>
    /\ UNCHANGED notLoan

ParseSummaryCreditRaises ==
    /\ lPc = "summary"
    /\ \E i \in 1..Len(lLines) : SummaryLineRaises(lLines[i])
    /\ LoanFails("done")

ParseCreditInformation ==
    /\ lPc = "information"
    /\ lStatement' = [credit_information |-> parse_credit_information(lLines),
                      summary |-> lSummary]
    /\ lPc' = "scan"
    /\ UNCHANGED <<lLines, lIdx, lSummary, lRet>>
    /\ UNCHANGED notLoan

\* one turn of the loop of lines 268-272 on line lIdx + 1
ScanLine ==
    /\ lPc = "scan"
    /\ lIdx < Len(lLines)
    /\ LET new_line == lLines[lIdx + 1]
           val == Join(new_line)
           isBalance == val = "SALDO DE CRÉDITO"
           withBalance == IF isBalance
                          THEN Put(lStatement, val, Join(lLines[lIdx + 2]))
                          ELSE lStatement
       IN  /\ isBalance => lIdx + 2 <= Len(lLines)
           /\ lStatement' =
                IF Contains(LineChars(<<"FECHA", "DE", "PAGO">>), LineChars(new_line))
                THEN Put(withBalance, "date", new_line[Len(new_line)])
                ELSE withBalance
    /\ lIdx' = lIdx + 1
    /\ UNCHANGED <<lLines, lPc, lSummary, lRet>>
    /\ UNCHANGED notLoan

\* 'SALDO DE CRÉDITO' is the last line: text_lines[idx + 1] raises
ScanLineRaises ==
    /\ lPc = "scan"
    /\ lIdx < Len(lLines)
    /\ Join(lLines[lIdx + 1]) = "SALDO DE CRÉDITO"
    /\ lIdx + 2 > Len(lLines)
    /\ LoanFails("done")

ReturnStatement ==
    /\ lPc = "scan"
    /\ lIdx = Len(lLines)
    /\ lPc' = "done"
    /\ lRet' = lStatement
    /\ UNCHANGED <<lLines, lIdx, lSummary, lStatement>>
    /\ UNCHANGED notLoan

NextLoan ==
    \/ OpenRaises
    \/ ReadPages
    \/ ParseSummaryCredit
    \/ ParseSummaryCreditRaises
    \/ ParseCreditInformation
    \/ ScanLine
    \/ ScanLineRaises
    \/ ReturnStatement

(***************************************************************************)
(* Claims about the loan statement parser.                                 *)
(***************************************************************************)
\* C9: whatever lines the source holds, the output of parse_credit_statement
\* for a statement that could be read contains the eleven concept keys and
\* no other concept key, a concept no line matches having the value ''.
C9_ElevenConceptKeys ==
    lPc = "done" =>
      /\ "credit_information" \in DOMAIN lRet
      /\ DOMAIN lRet["credit_information"] = InformationConcepts
      /\ \A c \in InformationConcepts :
           (\A i \in 1..Len(lLines) : c \notin MatchedConcepts(lLines[i]))
             => lRet["credit_information"][c] = ""

\* C21: a line that fails to match is never fatal: a summary line that
\* ends right after a known concept (or a balance label with no line after
\* it) leaves the output as it was and the scan goes on, so that a concept
\* found on another line of the document is still returned with its value.
C21_MismatchNotFatal ==
    lPc = "done" =>
      \A i \in 1..Len(lLines) :
        \A c \in MatchedConcepts(lLines[i]) :
          /\ "credit_information" \in DOMAIN lRet
          /\ \E j \in 1..Len(lLines) :
               /\ c \in MatchedConcepts(lLines[j])
               /\ lRet["credit_information"][c] = lLines[j][Len(lLines[j])]

(***************************************************************************)
(* The UBL invoice reader (extract_invoice_attachment.py): get_from_xml    *)
(* and _extract_product_info.  xml_data is kept as what the code reads of  *)
(* it; a node that can have several shapes carries its shape.              *)
(***************************************************************************)
\* the most line items of a document
MaxItems == 2

\* a tax entry: its cbc:TaxAmount text can be read ("ok"), a key on the
\* way is missing (KeyError), or a node on the way is not a mapping
\* (TypeError)
TaxEntry(kind, text) == [kind |-> kind, text |-> text]

\* the cac:TaxTotal nodes of the documents modelled
TaxTotals ==
    {[shape |-> "absent", entries |-> <<>>],
     [shape |-> "dict", entries |-> <<TaxEntry("ok", "10")>>],
     [shape |-> "dict", entries |-> <<TaxEntry("ok", "abc")>>],
     [shape |-> "dict", entries |-> <<TaxEntry("missing", "")>>],
     [shape |-> "dict", entries |-> <<TaxEntry("wrongshape", "")>>],
     [shape |-> "list", entries |-> <<>>],
     [shape |-> "list", entries |-> <<TaxEntry("ok", "10"), TaxEntry("ok", "20")>>],
     [shape |-> "list", entries |-> <<TaxEntry("ok", "10"), TaxEntry("ok", "abc"),
                                      TaxEntry("missing", ""), TaxEntry("ok", "20")>>],
     [shape |-> "list", entries |-> <<TaxEntry("ok", "10"), TaxEntry("wrongshape", "")>>]}

\* a cac:InvoiceLine item
LineItem(idShape, id, quantity, hasPrice, description, tax) ==
    [idShape |-> idShape, id |-> id, quantity |-> quantity, subtotal |-> "100",
     hasPrice |-> hasPrice, price |-> "100", description |-> description,
     tax |-> tax]

\* the line items of the documents modelled
LineItems ==
    {LineItem("text", "1", "1", TRUE, "RAPPI", tax) : tax \in TaxTotals}
      \cup {LineItem("dict", "2", "2", TRUE, "EXITO", tax) :
              tax \in {t \in TaxTotals : t.entries \in {<<>>, <<TaxEntry("ok", "10")>>}}}
      \cup {LineItem("text", "x", "1", TRUE, "NORTE", [shape |-> "absent", entries |-> <<>>]),
            LineItem("absent", "", "1", TRUE, "NORTE", [shape |-> "absent", entries |-> <<>>]),
            LineItem("text", "1", "abc", TRUE, "NORTE", [shape |-> "absent", entries |-> <<>>]),
            LineItem("text", "1", "1", FALSE, "NORTE", [shape |-> "absent", entries |-> <<>>])}

\* the cac:InvoiceLine nodes: absent, a single item, a list of items, or
\* something else
InvoiceLines ==
    {[shape |-> "absent", items |-> <<>>], [shape |-> "other", items |-> <<>>]}
      \cup {[shape |-> "dict", items |-> <<item>>] : item \in LineItems}
      \cup {[shape |-> "list", items |-> items] :
              items \in UNION {[1..n -> LineItems] : n \in 0..MaxItems}}

\* the rest of the document: whether the authorization period and
\* cac:LegalMonetaryTotal are there, and the two amounts
Headers ==
    {[period |-> TRUE, monetary |-> TRUE, discount |-> "20", total |-> "300"],
     [period |-> FALSE, monetary |-> TRUE, discount |-> "20", total |-> "300"],
     [period |-> TRUE, monetary |-> FALSE, discount |-> "20", total |-> "300"],
     [period |-> TRUE, monetary |-> TRUE, discount |-> "20", total |-> "abc"]}

\* whether int(text) / float(text) accepts the text
IsNumeral(text) ==
    LET cs == TokenChars(text)
    IN  /\ cs # <<>>
        /\ \A i \in 1..Len(cs) : \E d \in 1..Len(Digits) : Digits[d] = cs[i]

\* int(text), float(text)
NumberOf(text) == WholeNumber(TokenChars(text))

RECURSIVE TaxesOfList(_, _)
\* the loop over a list of tax entries, from the sum so far: the sum, or
\* "TypeError" when an entry raises what the loop does not catch
TaxesOfList(taxes, entries) ==
    IF entries = <<>> THEN [raises |-> None, taxes |-> taxes]
    ELSE LET tax == Head(entries)
         IN  IF tax.kind = "wrongshape" THEN [raises |-> "TypeError", taxes |-> taxes]
             ELSE IF tax.kind = "ok" /\ IsNumeral(tax.text)
             THEN TaxesOfList(taxes + NumberOf(tax.text), Tail(entries))
             ELSE TaxesOfList(taxes, Tail(entries))

\* lines 105-118
TaxesOf(tax_total) ==
    IF tax_total.shape = "absent" \/ tax_total.entries = <<>>
    THEN [raises |-> None, taxes |-> 0]
    ELSE IF tax_total.shape = "list" THEN TaxesOfList(0, tax_total.entries)
    ELSE TaxesOfList(0, <<tax_total.entries[1]>>)

\* _extract_product_info(product): the exception it raises, if any, and
\* product_dict
extract_product_info(product) ==
    LET taxes == TaxesOf(product.tax)
        idText == IF product.idShape = "absent" THEN None ELSE product.id
    IN  IF product.idShape = "absent" \/ ~IsNumeral(product.id)
        THEN [raises |-> "ValueError", product |-> EmptyDict]
        ELSE IF ~IsNumeral(product.quantity) \/ ~IsNumeral(product.subtotal)
        THEN [raises |-> "ValueError", product |-> EmptyDict]
        ELSE IF ~product.hasPrice \/ ~IsNumeral(product.price)
        THEN [raises |-> "ValueError", product |-> EmptyDict]
        ELSE [raises |-> taxes.raises,
              product |-> [product_id |-> NumberOf(idText),
                           quantity |-> NumberOf(product.quantity),
                           subtotal |-> NumberOf(product.subtotal),
                           description |-> product.description,
                           price |-> NumberOf(product.price),
                           taxes |-> taxes.taxes]]

\* lines 142-148 with a list taken for nothing
InvoiceLineProductsListOnly(invoice_lines) ==
    IF invoice_lines.shape = "list" THEN invoice_lines.items ELSE <<>>

\* lines 142-146: the items _extract_product_info is called on, in order
InvoiceLineProducts(invoice_lines) ==
    IF invoice_lines.shape = "list" THEN invoice_lines.items
    ELSE <<invoice_lines.items[1]>>

InitXml ==
    /\ xHeader \in Headers
    /\ xLines \in InvoiceLines
    /\ xPc = "period"
    /\ xItems = <<>>
    /\ xProducts = <<>>
    /\ xRet = None

IdleXml ==
    /\ xHeader = [period |-> TRUE, monetary |-> TRUE, discount |-> "20", total |-> "300"]
    /\ xLines = [shape |-> "absent", items |-> <<>>]
    /\ xPc = "idle"
    /\ xItems = <<>>
    /\ xProducts = <<>>
    /\ xRet = None

\* the except blocks of get_from_xml: every exception leaves as ValueError
XmlRaises ==
    /\ xPc' = "raised"
    /\ xRet' = "ValueError"
    /\ UNCHANGED <<xHeader, xLines, xItems, xProducts>>
    /\ UNCHANGED notXml

\* a key get_from_xml reads is not in the document
MissingField ==
    /\ \/ xPc = "period" /\ ~xHeader.period
       \/ xPc = "lines" /\ xLines.shape = "absent"
       \/ xPc = "totals" /\ ~xHeader.monetary
    /\ XmlRaises

ReadPeriod ==
    /\ xPc = "period"
    /\ xHeader.period
    /\ xPc' = "lines"
    /\ UNCHANGED <<xHeader, xLines, xItems, xProducts, xRet>>
    /\ UNCHANGED notXml

\* invoice_lines is a list or a dict
ReadInvoiceLines ==
    /\ xPc = "lines"
    /\ xLines.shape \in {"list", "dict"}
    /\ xItems' = InvoiceLineProducts(xLines)
    /\ xPc' = "products"
    /\ UNCHANGED <<xHeader, xLines, xProducts, xRet>>
    /\ UNCHANGED notXml

\* invoice_lines is neither
InvalidInvoiceLines ==
    /\ xPc = "lines"
    /\ xLines.shape = "other"
    /\ XmlRaises

\* products.append(_extract_product_info(product))
ExtractProduct ==
    /\ xPc = "products"
    /\ Len(xProducts) < Len(xItems)
    /\ LET info == extract_product_info(xItems[Len(xProducts) + 1])
       IN  /\ info.raises = None
           /\ xProducts' = Append(xProducts, info.product)
    /\ UNCHANGED <<xHeader, xLines, xItems, xPc, xRet>>
    /\ UNCHANGED notXml

ExtractProductRaises ==
    /\ xPc = "products"
    /\ Len(xProducts) < Len(xItems)
    /\ extract_product_info(xItems[Len(xProducts) + 1]).raises # None
    /\ XmlRaises

ProductsDone ==
    /\ xPc = "products"
    /\ Len(xProducts) = Len(xItems)
    /\ xPc' = "totals"
    /\ UNCHANGED <<xHeader, xLines, xItems, xProducts, xRet>>
    /\ UNCHANGED notXml

\* lines 150-154
ReadTotals ==
    /\ xPc = "totals"
    /\ xHeader.monetary
    /\ IsNumeral(xHeader.discount) /\ IsNumeral(xHeader.total)
    /\ xPc' = "done"
    /\ xRet' = [period |-> "period", products |-> xProducts,
                discount |-> NumberOf(xHeader.discount),
                total |-> NumberOf(xHeader.total)]
    /\ UNCHANGED <<xHeader, xLines, xItems, xProducts>>
    /\ UNCHANGED notXml

\* float() of an amount raises
InvalidTotals ==
    /\ xPc = "totals"
    /\ xHeader.monetary
    /\ ~(IsNumeral(xHeader.discount) /\ IsNumeral(xHeader.total))
    /\ XmlRaises

NextXml ==
    \/ MissingField
    \/ ReadPeriod
    \/ ReadInvoiceLines
    \/ InvalidInvoiceLines
    \/ ExtractProduct
    \/ ExtractProductRaises
    \/ ProductsDone
    \/ ReadTotals
    \/ InvalidTotals

(***************************************************************************)
(* Claims about the UBL invoice reader.                                    *)
(***************************************************************************)
\* the line items of the document, in source order, whichever shape
\* cac:InvoiceLine has
SourceItems ==
    IF xLines.shape \in {"dict", "list"} THEN xLines.items ELSE <<>>

\* C10: both shapes of cac:InvoiceLine are handled alike.  When get_from_xml
\* returns, products holds one product per line item of the document, in
\* source order (a single object as a one-element sequence), and total and
\* discount are the PayableAmount and AllowanceTotalAmount of the document;
\* and a document whose cac:InvoiceLine is a single object or a sequence is
\* not refused unless one of its items, or the rest of it, is invalid.
C10_BothShapesUniform ==
    /\ xPc = "done" =>
         /\ Len(xRet.products) = Len(SourceItems)
         /\ \A i \in 1..Len(SourceItems) :
              xRet.products[i] = extract_product_info(SourceItems[i]).product
         /\ xRet.total = NumberOf(xHeader.total)
         /\ xRet.discount = NumberOf(xHeader.discount)
    /\ (xPc = "raised" /\ xLines.shape \in {"dict", "list"}) =>
         \/ ~xHeader.period \/ ~xHeader.monetary
         \/ ~IsNumeral(xHeader.total) \/ ~IsNumeral(xHeader.discount)
         \/ \E i \in 1..Len(SourceItems) :
              extract_product_info(SourceItems[i]).raises # None

\* a document of two line items has been read: two products, in order
C10_Witness ==
    /\ xPc = "done"
    /\ xLines.shape = "list"
    /\ Len(xLines.items) = 2
    /\ Len(xRet.products) = 2
    /\ xRet.products[1].product_id = 1
    /\ xRet.products[2].product_id = 2
    /\ xRet.total = 300
    /\ xRet.discount = 20

\* the id and the four required fields of a line item can be read
RequiredFieldsValid(product) ==
    /\ product.idShape # "absent"
    /\ IsNumeral(product.id)
    /\ IsNumeral(product.quantity)
    /\ IsNumeral(product.subtotal)
    /\ product.hasPrice
    /\ IsNumeral(product.price)

RECURSIVE ReadableTaxSum(_)
\* the sum of the tax entries whose amount can be read
ReadableTaxSum(entries) ==
    IF entries = <<>> THEN 0
    ELSE (IF Head(entries).kind = "ok" /\ IsNumeral(Head(entries).text)
          THEN NumberOf(Head(entries).text) ELSE 0)
         + ReadableTaxSum(Tail(entries))

\* C11: a tax entry that cannot be read (missing node, wrong node shape,
\* unparsable amount), cac:TaxTotal being a single object or a sequence,
\* contributes zero to the taxes of its item, the other entries keep their
\* contribution, and get_from_xml does not fail because of it: it only
\* refuses an item whose id or required fields are invalid.
C11_TaxFailureContained ==
    /\ \A i \in 1..Len(xProducts) :
         xProducts[i].taxes = ReadableTaxSum(xItems[i].tax.entries)
    /\ (xPc = "raised" /\ Len(xProducts) < Len(xItems)) =>
         ~RequiredFieldsValid(xItems[Len(xProducts) + 1])

(***************************************************************************)
(* The zipped-XML path (extract_invoice_attachment.py): get_from_attachment*)
(* with path_attachment, which opens the archive and hands the invoice to  *)
(* get_from_xml.                                                           *)
(***************************************************************************)
\* what the file at path_attachment is: a zip with the wrapped invoice,
\* not a zip, a zip without .xml entry, a zip whose .xml entry lacks the
\* AttachedDocument wrapper or is not XML, or no file at all
Archives == {"ok", "badzip", "noxml", "nowrapper", "notxml", "nofile"}

\* the exception lines 179-187 raise on an archive that is not "ok"
ArchiveException(zip) ==
    CASE zip = "badzip" -> "BadZipFile"
      [] zip = "noxml" -> "ValueError"
      [] zip = "nowrapper" -> "KeyError"
      [] zip = "notxml" -> "ExpatError"
      [] zip = "nofile" -> "FileNotFoundError"

\* the except clauses with only ValueError left as it is
AttachmentErrorUnclassified(exc) == exc

\* lines 190-193: BadZipFile and every other Exception leave as ValueError
AttachmentError(exc) == "ValueError"

\* the invoice of an archive that is not read is of no account
InitAttachment ==
    /\ aZip \in Archives
    /\ aPc = "open"
    /\ aRet = None
    /\ xHeader \in Headers
    /\ xLines \in InvoiceLines
    /\ aZip # "ok" =>
         /\ xHeader = [period |-> TRUE, monetary |-> TRUE,
                       discount |-> "20", total |-> "300"]
         /\ xLines = [shape |-> "absent", items |-> <<>>]
    /\ xPc = "idle"
    /\ xItems = <<>>
    /\ xProducts = <<>>
    /\ xRet = None

IdleAttachment ==
    /\ aZip = "ok"
    /\ aPc = "idle"
    /\ aRet = None

\* the archive cannot be read
ArchiveRaises ==
    /\ aPc = "open"
    /\ aZip # "ok"
    /\ aPc' = "raised"
    /\ aRet' = AttachmentError(ArchiveException(aZip))
    /\ UNCHANGED aZip
    /\ UNCHANGED notAttachment

\* line 188: get_from_xml is called on the invoice
CallGetFromXml ==
    /\ aPc = "open"
    /\ aZip = "ok"
    /\ aPc' = "xml"
    /\ xPc' = "period"
    /\ UNCHANGED <<aZip, aRet, xHeader, xLines, xItems, xProducts, xRet>>
    /\ UNCHANGED notInvoicePath

GetFromXmlReturns ==
    /\ aPc = "xml"
    /\ xPc = "done"
    /\ aPc' = "done"
    /\ aRet' = xRet
    /\ UNCHANGED aZip
    /\ UNCHANGED notAttachment

GetFromXmlRaises ==
    /\ aPc = "xml"
    /\ xPc = "raised"
    /\ aPc' = "raised"
    /\ aRet' = AttachmentError(xRet)
    /\ UNCHANGED aZip
    /\ UNCHANGED notAttachment

NextAttachment ==
    \/ ArchiveRaises
    \/ CallGetFromXml
    \/ GetFromXmlReturns
    \/ GetFromXmlRaises
    \/ NextXml

(***************************************************************************)
(* Claims about the zipped-XML path.                                       *)
(***************************************************************************)
\* a node get_from_xml requires is missing, at document or line-item level
RequiredNodeMissing ==
    \/ ~xHeader.period
    \/ ~xHeader.monetary
    \/ xLines.shape = "absent"
    \/ \E i \in 1..Len(SourceItems) :
         SourceItems[i].idShape = "absent" \/ ~SourceItems[i].hasPrice

\* C12: every failure of the zipped-XML path (a required node missing at
\* document or line-item level, an archive without .xml entry, an invalid
\* zip) leaves get_from_attachment as ValueError, the one classified error,
\* and no record is returned for the document.
C12_PathFailureClassified ==
    /\ aPc = "raised" => aRet = "ValueError"
    /\ (aPc \in {"done", "raised"} /\ (aZip # "ok" \/ RequiredNodeMissing)) =>
         (aPc = "raised" /\ aRet = "ValueError")

\* a line item without price has made the path fail
C12_Witness ==
    /\ aPc = "raised"
    /\ aZip = "ok"
    /\ Len(xProducts) < Len(xItems)
    /\ ~xItems[Len(xProducts) + 1].hasPrice
    /\ aRet = "ValueError"

(***************************************************************************)
(* The batch loops (function_app.py): extract_notifications,               *)
(* extract_payments and extract_invoices.  A message of the input blob is  *)
(* kept as what its extraction does.                                       *)
(***************************************************************************)
\* the most messages of a batch
MaxBatch == 3

\* what a message of each loop can be:
\*   notifications - "record": extract_notification_email returns a record;
\*     "raises": it raises (no header delimiter in the body); "nobody": the
\*     body is empty
\*   payments - "record": get_html_payment returns a record; "empty": it
\*     returns {} (request failed, rejected subject, any exception)
\*   invoices - "enel", "enelnone": an Enel message, extract_enel_invoice
\*     returning a mapping or None; "record": extract_invoice returns a
\*     record; "raises": it raises; "none": it returns None (request
\*     refused, no zip or pdf attachment); "neither": not Enel and no
\*     attachments
MessageKinds(loop) ==
    CASE loop = "notifications" -> {"record", "raises", "nobody"}
      [] loop = "payments" -> {"record", "empty"}
      [] loop = "invoices" ->
           {"enel", "enelnone", "record", "raises", "none", "neither"}

BatchLoops == {"notifications", "payments", "invoices"}

\* the value the extraction call of message i leaves in its local
\* (extracted / info); Unbound when no call is made
Unbound == [id |-> 0, kind |-> "unbound"]

Extracted(loop, msgs, i) ==
    IF msgs[i] \in {"record", "enel"} THEN [id |-> i, kind |-> msgs[i]]
    ELSE IF msgs[i] \in {"enelnone", "none"} THEN [id |-> i, kind |-> "None"]
    ELSE IF msgs[i] = "empty" THEN [id |-> i, kind |-> "empty"]
    ELSE Unbound

\* the body of the loop raises on message i: the extraction raises,
\* extract_invoice gave None and info.update fails, or info is read
\* before it was ever bound
MessageRaises(loop, msgs, i, info) ==
    \/ msgs[i] \in {"raises", "none"}
    \/ msgs[i] = "neither" /\ info = Unbound

InitBatch ==
    /\ bLoop \in BatchLoops
    /\ bMsgs \in UNION {[1..n -> MessageKinds(bLoop)] : n \in 0..MaxBatch}
    /\ bIdx = 0
    /\ bExtracted = <<>>
    /\ bInfo = Unbound
    /\ bBlob = <<>>
    /\ bWritten = FALSE
    /\ bPc = "loop"

IdleBatch ==
    /\ bLoop = "idle"
    /\ bMsgs = <<>>
    /\ bIdx = 0
    /\ bExtracted = <<>>
    /\ bInfo = Unbound
    /\ bBlob = <<>>
    /\ bWritten = FALSE
    /\ bPc = "idle"

\* the extraction of message bIdx + 1 gives a value and it is appended
MessageAppended ==
    /\ bPc = "loop"
    /\ bIdx < Len(bMsgs)
    /\ bMsgs[bIdx + 1] \in {"record", "enel", "enelnone"}
    /\ bInfo' = Extracted(bLoop, bMsgs, bIdx + 1)
    /\ bExtracted' = Append(bExtracted, bInfo')
    /\ bIdx' = bIdx + 1
    /\ UNCHANGED <<bLoop, bMsgs, bBlob, bWritten, bPc>>
    /\ UNCHANGED notBatch

\* no body (notifications) or an empty mapping (payments): nothing appended
MessageSkipped ==
    /\ bPc = "loop"
    /\ bIdx < Len(bMsgs)
    /\ bMsgs[bIdx + 1] \in {"nobody", "empty"}
    /\ bInfo' = Extracted(bLoop, bMsgs, bIdx + 1)
    /\ bIdx' = bIdx + 1
    /\ UNCHANGED <<bLoop, bMsgs, bExtracted, bBlob, bWritten, bPc>>
    /\ UNCHANGED notBatch

\* extract_invoices, neither branch taken: info of an earlier message is
\* appended again
StaleInfoAppended ==
    /\ bPc = "loop"
    /\ bIdx < Len(bMsgs)
    /\ bMsgs[bIdx + 1] = "neither"
    /\ bInfo # Unbound
    /\ bExtracted' = Append(bExtracted, bInfo)
    /\ bIdx' = bIdx + 1
    /\ UNCHANGED <<bLoop, bMsgs, bInfo, bBlob, bWritten, bPc>>
    /\ UNCHANGED notBatch

\* the body of the loop raises: the except clause, which encloses the whole
\* loop, logs it and the function ends
MessageFails ==
    /\ bPc = "loop"
    /\ bIdx < Len(bMsgs)
    /\ MessageRaises(bLoop, bMsgs, bIdx + 1, bInfo)
    /\ bPc' = "failed"
    /\ UNCHANGED <<bLoop, bMsgs, bIdx, bExtracted, bInfo, bBlob, bWritten>>
    /\ UNCHANGED notBatch

\* outputBlob.set(json.dumps(extracted_data))
BlobWritten ==
    /\ bPc = "loop"
    /\ bIdx = Len(bMsgs)
    /\ bBlob' = bExtracted
    /\ bWritten' = TRUE
    /\ bPc' = "done"
    /\ UNCHANGED <<bLoop, bMsgs, bIdx, bExtracted, bInfo>>
    /\ UNCHANGED notBatch

NextBatch ==
    \/ MessageAppended
    \/ MessageSkipped
    \/ StaleInfoAppended
    \/ MessageFails
    \/ BlobWritten

(***************************************************************************)
(* Claims about the batch loops.                                           *)
(***************************************************************************)
\* C13: in each batch loop the failure of the extraction of one message
\* does not abort the batch: when the function has ended, the output blob
\* has been written and holds the record of every message whose extraction
\* gives one.
C13_BatchSurvivesFailure ==
    bPc \in {"done", "failed"} =>
      /\ bWritten
      /\ \A i \in 1..Len(bMsgs) :
           bMsgs[i] \in {"record", "enel"} =>
             \E j \in 1..Len(bBlob) : bBlob[j] = [id |-> i, kind |-> bMsgs[i]]

\* what a turn of the extract_invoices loop on message bIdx + 1 appends
OwnRecordOnly ==
    LET i == bIdx + 1
    IN  /\ bMsgs[i] = "neither" => bExtracted' = bExtracted
        /\ \/ bExtracted' = bExtracted
           \/ /\ bExtracted' = Append(bExtracted, Extracted(bLoop, bMsgs, i))
              /\ \A j \in 1..Len(bExtracted) :
                   bExtracted[j] # bExtracted'[Len(bExtracted')]

\* C29: in the extract_invoices loop every record appended to the output
\* is computed from the message of the current iteration: a message that
\* is neither an Enel message nor has attachments contributes no record,
\* and no record of an earlier message is appended a second time.
C29_OwnRecordOnly ==
    [][(bLoop = "invoices" /\ bPc = "loop" /\ bIdx < Len(bMsgs))
         => OwnRecordOnly]_vars

(***************************************************************************)
(* Concurrent extract_invoice calls (get_attachment_invoices.py,           *)
(* decode_attachment.py).  Every call saves its attachment under           *)
(* "/tmp/" + attachment_name and then parses the file at that path; /tmp   *)
(* is shared by the calls of a host.                                       *)
(***************************************************************************)
\* the most extract_invoice calls under way
MaxCalls == 2

Calls == 1..MaxCalls

\* the attachment names of the messages
AttachmentNames == {"factura.zip", "invoice.pdf"}

\* the document whose bytes call p carries
DocumentOf(p) == ToString(p)

\* what parsing the file at a path gives: the record of the document
\* whose bytes the file holds, or a failure when there is no file
ParseFile(files, name) ==
    IF files[name] = "absent" THEN "failure" ELSE files[name]

InitCalls ==
    /\ fName \in [Calls -> AttachmentNames]
    /\ fDecodes \in [Calls -> BOOLEAN]
    /\ fFiles = [name \in AttachmentNames |-> "absent"]
    /\ fPc = [p \in Calls |-> "decode"]
    /\ fRet = [p \in Calls |-> None]

IdleCalls ==
    /\ fName = <<>>
    /\ fDecodes = <<>>
    /\ fFiles = <<>>
    /\ fPc = <<>>
    /\ fRet = <<>>

\* decode_and_save_attachment: the bytes are written at the path
AttachmentSaved ==
    \E p \in Calls :
      /\ fPc[p] = "decode"
      /\ fDecodes[p]
      /\ fFiles' = [fFiles EXCEPT ![fName[p]] = DocumentOf(p)]
      /\ fPc' = [fPc EXCEPT ![p] = "parse"]
      /\ UNCHANGED <<fName, fDecodes, fRet>>
      /\ UNCHANGED notCalls

\* decode_and_save_attachment: base64.b64decode raises; the function
\* returns False, which extract_invoice does not look at
DecodeFails ==
    \E p \in Calls :
      /\ fPc[p] = "decode"
      /\ ~fDecodes[p]
      /\ fPc' = [fPc EXCEPT ![p] = "parse"]
      /\ UNCHANGED <<fName, fDecodes, fFiles, fRet>>
      /\ UNCHANGED notCalls

\* get_from_attachment / extract_invoice_from_pdf read the file at the path
AttachmentParsed ==
    \E p \in Calls :
      /\ fPc[p] = "parse"
      /\ fRet' = [fRet EXCEPT ![p] = ParseFile(fFiles, fName[p])]
      /\ fPc' = [fPc EXCEPT ![p] = "done"]
      /\ UNCHANGED <<fName, fDecodes, fFiles>>
      /\ UNCHANGED notCalls

NextCalls ==
    \/ AttachmentSaved
    \/ DecodeFails
    \/ AttachmentParsed

(***************************************************************************)
(* Claims about concurrent calls.                                          *)
(***************************************************************************)
\* the result of call p when it is the only call there ever was
ResultAlone(p) == IF fDecodes[p] THEN DocumentOf(p) ELSE "failure"

\* C16: the record extracted for a document depends only on the bytes of
\* that document: under any interleaving of extract_invoice calls and
\* after any earlier calls (two attachments of the same name, a call whose
\* base64 decode failed), the result of a call is the result of extracting
\* its document alone.
C16_ResultOfOwnDocument ==
    \A p \in DOMAIN fPc : fPc[p] = "done" => fRet[p] = ResultAlone(p)

(***************************************************************************)
(* The retailer line heuristic (extract_invoice_attachment.py,             *)
(* _extract_alkosto_invoice).  all_text is kept as the sequence of its     *)
(* lines, each stripped and kept as the sequence of its words; in the      *)
(* lines modelled the currency sign is a word of its own.                  *)
(***************************************************************************)
\* the longest page text, in lines
MaxPdfLines == 4

PdfLines ==
    {<<"FACTURA", "ELECTRONICA">>,
     <<>>,
     <<"01/02", "10">>,
     <<"REDEBAN", "$", "100">>,
     <<"ELECTRONICA", "REDEBAN", "$", "200">>,
     <<"Visa">>}

\* the page texts of at most MaxPdfLines lines
PdfTexts ==
    UNION {[1..n -> PdfLines] : n \in 0..MaxPdfLines}

\* all_text.split('\n'): every page text is followed by "\n", so the last
\* line is always an empty one
SplitLines(text) == text \o << <<>> >>

\* word in line
LineHas(word, line) == Contains(TokenChars(word), LineChars(line))

\* line.split("$")[-1].strip()
AfterLastDollar(line) ==
    LET at == {i \in 1..Len(line) : line[i] = "$"}
    IN  IF at = {} THEN Join(line)
        ELSE LET last == CHOOSE i \in at : \A j \in at : j <= i
             IN  Join(SubSeq(line, last + 1, Len(line)))

\* line.split(" ")[0].strip()
FirstWord(line) == IF line = <<>> THEN "" ELSE line[1]

\* a line of any kind
IsAnyLine(line) == TRUE

\* len(line.split()) == 0
IsBlankLine(line) == Len(line) = 0

\* one turn of the loop: st holds tip and info
AlkostoStep(st, line) ==
    IF LineHas("REDEBAN", line)
    THEN [st EXCEPT !.info = Put(@, "value", AfterLastDollar(line))]
    ELSE IF LineHas("ELECTRONICA", line) /\ st.tip = 0
    THEN [st EXCEPT !.tip = @ + 1]
    ELSE IF st.tip = 1 /\ IsBlankLine(line)
    THEN [st EXCEPT !.tip = @ + 1]
    ELSE IF st.tip = 2
    THEN [st EXCEPT !.info = Put(@, "Date", FirstWord(line)), !.tip = 0]
    ELSE st

InitAlkosto ==
    /\ kDoc \in {"plain", "unlocked", "locked"}
    /\ kLines \in {SplitLines(text) : text \in PdfTexts}
    /\ kPc = "open"
    /\ kIdx = 0
    /\ kTip = 0
    /\ kInfo = EmptyDict
    /\ kRet = None

IdleAlkosto ==
    /\ kDoc = "plain"
    /\ kLines = <<>>
    /\ kPc = "idle"
    /\ kIdx = 0
    /\ kTip = 0
    /\ kInfo = EmptyDict
    /\ kRet = None

\* the document is encrypted and the password is refused: ValueError
AlkostoRaises ==
    /\ kPc = "open"
    /\ PasswordRefused("pdf", kDoc)
    /\ kPc' = "raised"
    /\ UNCHANGED <<kDoc, kLines, kIdx, kTip, kInfo, kRet>>
    /\ UNCHANGED notAlkosto

\* the pages are read into all_text; tip = 0
AlkostoReadPages ==
    /\ kPc = "open"
    /\ ~PasswordRefused("pdf", kDoc)
    /\ kPc' = "lines"
    /\ kTip' = 0
    /\ UNCHANGED <<kDoc, kLines, kIdx, kInfo, kRet>>
    /\ UNCHANGED notAlkosto

\* one turn of the loop over the lines
AlkostoLine ==
    /\ kPc = "lines"
    /\ kIdx < Len(kLines)
    /\ LET st == AlkostoStep([tip |-> kTip, info |-> kInfo], kLines[kIdx + 1])
       IN  /\ kTip' = st.tip
           /\ kInfo' = st.info
    /\ kIdx' = kIdx + 1
    /\ UNCHANGED <<kDoc, kLines, kPc, kRet>>
    /\ UNCHANGED notAlkosto

\* return info
AlkostoReturn ==
    /\ kPc = "lines"
    /\ kIdx = Len(kLines)
    /\ kRet' = kInfo
    /\ kPc' = "done"
    /\ UNCHANGED <<kDoc, kLines, kIdx, kTip, kInfo>>
    /\ UNCHANGED notAlkosto

NextAlkosto ==
    \/ AlkostoRaises
    \/ AlkostoReadPages
    \/ AlkostoLine
    \/ AlkostoReturn

(***************************************************************************)
(* Claims about the retailer line heuristic.                               *)
(***************************************************************************)
\* a turn of the loop assigns Date
DateAssigned ==
    /\ "Date" \in DOMAIN kInfo'
    /\ "Date" \in DOMAIN kInfo => kInfo'["Date"] # kInfo["Date"]

\* what a turn of the loop on the line at hand may do to tip and Date
TipStep ==
    LET line == kLines[kIdx + 1]
    IN  /\ kTip' # kTip =>
             \/ (kTip = 0 /\ kTip' = 1 /\ LineHas("ELECTRONICA", line))
             \/ (kTip = 1 /\ kTip' = 2 /\ line = <<>>)
             \/ (kTip = 2 /\ kTip' = 0)
        /\ (kTip = 2 /\ ~LineHas("REDEBAN", line)) =>
             (/\ kTip' = 0
              /\ "Date" \in DOMAIN kInfo'
              /\ kInfo'["Date"] = FirstWord(line))
        /\ DateAssigned => kTip = 2

\* C22: the retailer heuristic is a 3-state machine: tip is always 0, 1 or
\* 2; it goes 0 -> 1 only on a line containing ELECTRONICA, 1 -> 2 only on
\* a blank line; in state 2 the next line without REDEBAN gives Date (its
\* first word) and takes tip back to 0; Date is never assigned in state 0
\* or 1.
C22_ThreeStateMachine ==
    /\ [](kTip \in {0, 1, 2})
    /\ [][(kPc = "lines" /\ kIdx < Len(kLines)) => TipStep]_vars

\* C22 witness: a text went through the three states and its date line
\* gave Date.
C22_Witness ==
    /\ kPc = "done"
    /\ kTip = 0
    /\ "Date" \in DOMAIN kRet
    /\ kRet["Date"] = "01/02"

(***************************************************************************)
(* Concurrent get_messages invocations (function_app.py).  TOKENS is one   *)
(* mapping of the process; every invocation writes and reads it, one       *)
(* statement at a time.                                                    *)
(***************************************************************************)
\* the most get_messages invocations under way
MaxInvocations == 2

Invocations == 1..MaxInvocations

\* the device flow in the queue message of invocation p
DeviceFlowOf(p) == <<"flow", p>>

\* msal_app.acquire_token_by_device_flow(flow)['access_token']
AccessTokenOf(flow) == <<"token", flow[2]>>

\* {"Authorization": f"Bearer {token}"}
Bearer(token) == <<"Bearer", token>>

\* the four output queues, in the order get_messages sets them
OutputQueues == <<"notifications", "invoices", "statements", "payments">>

\* TOKENS before any invocation
EmptyTokens ==
    [device_flow |-> None, access_token |-> None, headers |-> None]

InitMessages ==
    /\ gTokens = EmptyTokens
    /\ gPc = [p \in Invocations |-> "body"]
    /\ gResult = [p \in Invocations |-> None]
    /\ gRequests = [p \in Invocations |-> {}]
    /\ gQueues = [p \in Invocations |-> <<>>]

IdleMessages ==
    /\ gTokens = EmptyTokens
    /\ gPc = <<>>
    /\ gResult = <<>>
    /\ gRequests = <<>>
    /\ gQueues = <<>>

\* TOKENS['device_flow'] = json.loads(body)
FlowStored(p) ==
    /\ gPc[p] = "body"
    /\ gTokens' = [gTokens EXCEPT !.device_flow = DeviceFlowOf(p)]
    /\ gPc' = [gPc EXCEPT ![p] = "acquire"]
    /\ UNCHANGED <<gResult, gRequests, gQueues>>
    /\ UNCHANGED notMessages

\* result = msal_app.acquire_token_by_device_flow(TOKENS['device_flow'])
TokenAcquired(p) ==
    /\ gPc[p] = "acquire"
    /\ gResult' = [gResult EXCEPT ![p] = AccessTokenOf(gTokens.device_flow)]
    /\ gPc' = [gPc EXCEPT ![p] = "token"]
    /\ UNCHANGED <<gTokens, gRequests, gQueues>>
    /\ UNCHANGED notMessages

\* TOKENS['access_token'] = result['access_token']
TokenStored(p) ==
    /\ gPc[p] = "token"
    /\ gTokens' = [gTokens EXCEPT !.access_token = gResult[p]]
    /\ gPc' = [gPc EXCEPT ![p] = "headers"]
    /\ UNCHANGED <<gResult, gRequests, gQueues>>
    /\ UNCHANGED notMessages

\* TOKENS['headers'] = {"Authorization": f"Bearer {TOKENS['access_token']}"}
HeadersStored(p) ==
    /\ gPc[p] = "headers"
    /\ gTokens' = [gTokens EXCEPT !.headers = Bearer(gTokens.access_token)]
    /\ gPc' = [gPc EXCEPT ![p] = "folders"]
    /\ UNCHANGED <<gResult, gRequests, gQueues>>
    /\ UNCHANGED notMessages

\* requests.get(.../me/mailFolders, headers=TOKENS['headers'])
FoldersRequested(p) ==
    /\ gPc[p] = "folders"
    /\ gRequests' = [gRequests EXCEPT ![p] = @ \cup {gTokens.headers}]
    /\ gPc' = [gPc EXCEPT ![p] = "messages"]
    /\ UNCHANGED <<gTokens, gResult, gQueues>>
    /\ UNCHANGED notMessages

\* requests.get(.../messages?$top=..., headers=TOKENS['headers'])
MessagesRequested(p) ==
    /\ gPc[p] = "messages"
    /\ gRequests' = [gRequests EXCEPT ![p] = @ \cup {gTokens.headers}]
    /\ gPc' = [gPc EXCEPT ![p] = "queues"]
    /\ UNCHANGED <<gTokens, gResult, gQueues>>
    /\ UNCHANGED notMessages

\* the acquisition or a request raises, no inbox folder, no messages: the
\* invocation ends with nothing put on its queues
ReturnsEarly(p) ==
    /\ gPc[p] \in {"acquire", "messages", "queues"}
    /\ gQueues[p] = <<>>
    /\ gPc' = [gPc EXCEPT ![p] = "ended"]
    /\ UNCHANGED <<gTokens, gResult, gRequests, gQueues>>
    /\ UNCHANGED notMessages

\* <name>_queue.set(json.dumps(TOKENS['headers'])), the next of the four
QueueSet(p) ==
    /\ gPc[p] = "queues"
    /\ gQueues' = [gQueues EXCEPT ![p] = Append(@, gTokens.headers)]
    /\ gPc' = [gPc EXCEPT ![p] =
                 IF Len(gQueues[p]) + 1 = Len(OutputQueues) THEN "done"
                 ELSE "queues"]
    /\ UNCHANGED <<gTokens, gResult, gRequests>>
    /\ UNCHANGED notMessages

NextMessages ==
    \/ \E p \in Invocations : FlowStored(p)
    \/ \E p \in Invocations : TokenAcquired(p)
    \/ \E p \in Invocations : TokenStored(p)
    \/ \E p \in Invocations : HeadersStored(p)
    \/ \E p \in Invocations : FoldersRequested(p)
    \/ \E p \in Invocations : MessagesRequested(p)
    \/ \E p \in Invocations : ReturnsEarly(p)
    \/ \E p \in Invocations : QueueSet(p)

(***************************************************************************)
(* Claims about concurrent get_messages invocations.                       *)
(***************************************************************************)
\* the headers invocation p has used, for requests and queues
HeadersUsed(p) ==
    gRequests[p] \cup {gQueues[p][i] : i \in 1..Len(gQueues[p])}

\* C30: under any interleaving of concurrent get_messages invocations in
\* one process, the headers an invocation uses for its mailbox requests
\* and puts on its four output queues are the headers made from the token
\* that same invocation acquired, never those another invocation wrote to
\* TOKENS.
C30_OwnHeadersOnly ==
    \A p \in DOMAIN gPc :
      \A h \in HeadersUsed(p) : h = Bearer(gResult[p])

(***************************************************************************)
(* Specifications.  One part runs; the others rest.                        *)
(***************************************************************************)
StartCascade ==
    InitCascade /\ IdleNotification /\ IdleCard /\ IdleLoan /\ IdleXml
      /\ IdleAttachment /\ IdleBatch /\ IdleCalls /\ IdleAlkosto /\ IdleMessages

SpecCascade == StartCascade /\ [][NextCascade]_vars

StartNotification ==
    InitNotification /\ IdleCascade /\ IdleCard /\ IdleLoan /\ IdleXml
      /\ IdleAttachment /\ IdleBatch /\ IdleCalls /\ IdleAlkosto /\ IdleMessages

SpecNotification == StartNotification /\ [][NextNotification]_vars

StartCard ==
    InitCard /\ IdleCascade /\ IdleNotification /\ IdleLoan /\ IdleXml
      /\ IdleAttachment /\ IdleBatch /\ IdleCalls /\ IdleAlkosto /\ IdleMessages

SpecCard == StartCard /\ [][NextCard]_vars

StartLoan ==
    InitLoan /\ IdleCascade /\ IdleNotification /\ IdleCard /\ IdleXml
      /\ IdleAttachment /\ IdleBatch /\ IdleCalls /\ IdleAlkosto /\ IdleMessages

SpecLoan == StartLoan /\ [][NextLoan]_vars

StartXml ==
    InitXml /\ IdleCascade /\ IdleNotification /\ IdleCard /\ IdleLoan
      /\ IdleAttachment /\ IdleBatch /\ IdleCalls /\ IdleAlkosto /\ IdleMessages

SpecXml == StartXml /\ [][NextXml]_vars

StartAttachment ==
    InitAttachment /\ IdleCascade /\ IdleNotification /\ IdleCard /\ IdleLoan
      /\ IdleBatch /\ IdleCalls /\ IdleAlkosto /\ IdleMessages

SpecAttachment == StartAttachment /\ [][NextAttachment]_vars

StartBatch ==
    InitBatch /\ IdleCascade /\ IdleNotification /\ IdleCard /\ IdleLoan
      /\ IdleXml /\ IdleAttachment /\ IdleCalls /\ IdleAlkosto /\ IdleMessages

SpecBatch == StartBatch /\ [][NextBatch]_vars

StartCalls ==
    InitCalls /\ IdleCascade /\ IdleNotification /\ IdleCard /\ IdleLoan /\ IdleXml /\ IdleAttachment /\ IdleBatch /\ IdleAlkosto /\ IdleMessages

SpecCalls == StartCalls /\ [][NextCalls]_vars

StartAlkosto ==
    InitAlkosto /\ IdleCascade /\ IdleNotification /\ IdleCard /\ IdleLoan /\ IdleXml /\ IdleAttachment /\ IdleBatch /\ IdleCalls /\ IdleMessages

SpecAlkosto == StartAlkosto /\ [][NextAlkosto]_vars

StartMessages ==
    InitMessages /\ IdleCascade /\ IdleNotification /\ IdleCard /\ IdleLoan /\ IdleXml /\ IdleAttachment /\ IdleBatch /\ IdleCalls /\ IdleAlkosto

SpecMessages == StartMessages /\ [][NextMessages]_vars

====
